---- MODULE Spec2Model ----
(***************************************************************************)
(* Clarity: the flat-file record store (csvDb.ts, crud.ts), its atomic     *)
(* write, the data-migration runner (index.ts, store.ts) and the startup   *)
(* sequence and IPC entry points of main.ts.                               *)
(***************************************************************************)
EXTENDS Integers, Sequences, FiniteSets, TLC

(***************************************************************************)
(* Bounds of the model.                                                    *)
(***************************************************************************)
\* largest id an insert is allowed to assign (guard of the insert handlers)
MaxId == 2
\* handler invocations per behaviour
MaxCalls == 3
\* process starts per behaviour
MaxBoots == 2
\* injected file-system failures per behaviour
MaxFaults == 1
\* requests delivered to the event loop and not yet handled
MaxPending == 2
\* handler invocations in behaviours that start with a process launch
MaxBootCalls == 1
\* timer-database handler invocations per behaviour
MaxTimerCalls == 3
MaxStoreCalls == 3
MaxNow == 2
MaxReminderCalls == 3
MaxStarts == 2
MaxSchedules == 2
MaxCancels == 2
MaxChain == 3
MaxInstant == 6
MaxCalendarCalls == 2
\* rows per table of the query model, and its handler invocations per behaviour
MaxRows == 2
MaxQueryCalls == 4

(***************************************************************************)
(* JavaScript values, tagged by type.                                      *)
(***************************************************************************)
Num(n) == [t |-> "num", v |-> n]
Str(s) == [t |-> "str", v |-> s]
Bool(b) == [t |-> "bool", v |-> b]
Null == [t |-> "null"]
Undefined == [t |-> "undefined"]
NaN == [t |-> "nan"]

\* a === b
StrictEq(a, b) == a.t # "nan" /\ a = b

\* ToBoolean(a)
Truthy(a) ==
    CASE a.t = "num" -> a.v # 0
      [] a.t = "str" -> a.v # ""
      [] a.t = "bool" -> a.v
      [] OTHER -> FALSE

\* a || b
JsOr(a, b) == IF Truthy(a) THEN a ELSE b

\* obj[k], undefined when the key is absent
Get(obj, k) == IF k \in DOMAIN obj THEN obj[k] ELSE Undefined

\* { ...a, ...b }
Spread(a, b) == [k \in DOMAIN a \cup DOMAIN b |-> IF k \in DOMAIN b THEN b[k] ELSE a[k]]

\* the numerals the model's cells can hold
Numerals == (0 - (MaxId + MaxCalls + 2))..(MaxId + MaxCalls + 2)

\* Number(s) of a CSV cell: "" is 0, a numeral is its value, anything else NaN
Number(s) ==
    IF s = "" THEN Num(0)
    ELSE IF \E n \in Numerals : ToString(n) = s
         THEN Num(CHOOSE n \in Numerals : ToString(n) = s)
         ELSE NaN

\* the text Papa.unparse writes for a value: null and undefined become the
\* empty cell, everything else String(value)
CellText(a) ==
    CASE a.t = "num" -> ToString(a.v)
      [] a.t = "str" -> a.v
      [] a.t = "bool" -> IF a.v THEN "true" ELSE "false"
      [] a.t = "nan" -> "NaN"
      [] OTHER -> ""

(***************************************************************************)
(* CSV text: the header's column set and one map of cells per line.        *)
(***************************************************************************)
EmptyCsv == [cols |-> {}, lines |-> <<>>]

\* Papa.unparse(data): the columns are the keys of the first object
PapaUnparse(data) ==
    IF Len(data) = 0 THEN EmptyCsv
    ELSE LET cols == DOMAIN data[1]
         IN  [cols |-> cols,
              lines |-> [i \in 1..Len(data) |->
                            [c \in cols |-> CellText(Get(data[i], c))]]]

\* Papa.parse(csvString, {header: true}): every cell is a string
PapaParse(csv) == [i \in 1..Len(csv.lines) |-> [c \in csv.cols |-> Str(csv.lines[i][c])]]

(***************************************************************************)
(* Files of one table: the primary, its .tmp and its .bak sibling.         *)
(***************************************************************************)
Absent == [exists |-> FALSE, csv |-> EmptyCsv]
FileOf(csv) == [exists |-> TRUE, csv |-> csv]
NoFiles == [file |-> Absent, tmp |-> Absent, bak |-> Absent]

\* the table the model keeps on disk; subjects.csv and notes.csv are handled by
\* the same code under other method names
Tables == {"todos"}

\* the header ensureFilesExist writes for a table (modelled columns)
Headers(table) == {"id", "text", "done", "due_date"}

\* CsvDatabase.ensureFilesExist, for one table
ensureFilesExist(f, table) ==
    IF f.file.exists THEN f
    ELSE [f EXCEPT !.file = FileOf([cols |-> Headers(table), lines |-> <<>>])]

\* the per-row conversion of CsvDatabase.readCSV
ConvertRow(row) ==
    [c \in DOMAIN row |->
        IF c \in {"id", "done", "starred"} THEN Number(row[c].v)
        ELSE IF c = "subject_id" /\ Truthy(row[c]) THEN Number(row[c].v)
        ELSE row[c]]

\* CsvDatabase.readCSV
readCSV(f) ==
    IF ~f.file.exists THEN <<>>
    ELSE LET data == PapaParse(f.file.csv)
         IN  [i \in 1..Len(data) |-> ConvertRow(data[i])]

\* the points at which a write can fail
FaultPoints == {"temp", "backup", "rename"}
NoFault == [at |-> "none", restore |-> FALSE]

\* the catch block of writeCSV: restore the backup if one exists
RestoreBackup(f, restoreFails) ==
    IF f.bak.exists /\ ~restoreFails
    THEN [f EXCEPT !.file = f.bak, !.bak = Absent]
    ELSE f

\* writeCSV whose catch block restores the backup and does not re-throw
writeCSV_Swallow(f, data, fault) ==
    LET csv == PapaUnparse(data)
        f1 == [f EXCEPT !.tmp = FileOf(csv)]
        f2 == IF f1.file.exists THEN [f1 EXCEPT !.bak = f1.file, !.file = Absent] ELSE f1
        f3 == [f2 EXCEPT !.file = f2.tmp, !.tmp = Absent]
        failed(g) == [fs |-> RestoreBackup(g, fault.restore), threw |-> FALSE,
                      restoreTried |-> g.bak.exists,
                      restoreThrew |-> g.bak.exists /\ fault.restore]
    IN  CASE fault.at = "temp" -> failed(f)
          [] fault.at = "backup" /\ f1.file.exists -> failed(f1)
          [] fault.at = "rename" -> failed(f2)
          [] OTHER -> [fs |-> f3, threw |-> FALSE,
                       restoreTried |-> FALSE, restoreThrew |-> FALSE]

\* CsvDatabase.writeCSV with the failure `fault` injected; the result carries
\* the files afterwards and whether the error was re-thrown
writeCSV(f, data, fault) ==
    LET csv == PapaUnparse(data)
        f1 == [f EXCEPT !.tmp = FileOf(csv)]
        f2 == IF f1.file.exists THEN [f1 EXCEPT !.bak = f1.file, !.file = Absent] ELSE f1
        f3 == [f2 EXCEPT !.file = f2.tmp, !.tmp = Absent]
        failed(g) == [fs |-> RestoreBackup(g, fault.restore), threw |-> TRUE,
                      restoreTried |-> g.bak.exists,
                      restoreThrew |-> g.bak.exists /\ fault.restore]
    IN  CASE fault.at = "temp" -> failed(f)
          [] fault.at = "backup" /\ f1.file.exists -> failed(f1)
          [] fault.at = "rename" -> failed(f2)
          [] OTHER -> [fs |-> f3, threw |-> FALSE,
                       restoreTried |-> FALSE, restoreThrew |-> FALSE]

\* Math.max(...ids): NaN as soon as one id is not a number
MathMax(vals) ==
    IF \E a \in vals : a.t # "num" THEN NaN
    ELSE Num(CHOOSE m \in {a.v : a \in vals} : \A a \in vals : a.v <= m)

\* a + 1
Succ(a) == IF a.t = "num" THEN Num(a.v + 1) ELSE NaN

\* CsvDatabase.getNextId
getNextId(data) ==
    IF Len(data) = 0 THEN Num(1)
    ELSE Succ(MathMax({Get(data[i], "id") : i \in 1..Len(data)}))

(***************************************************************************)
(* csvDb methods.  `todos` is what the method's first statement read       *)
(* (getTodos); the result carries the files afterwards, whether the method *)
(* threw, the value it returned and whether it wrote.                      *)
(***************************************************************************)
Wrote(w, value) ==
    [fs |-> w.fs, threw |-> w.threw, value |-> IF w.threw THEN Undefined ELSE value,
     wrote |-> TRUE, restoreTried |-> w.restoreTried, restoreThrew |-> w.restoreThrew]
Returned(f, value) ==
    [fs |-> f, threw |-> FALSE, value |-> value,
     wrote |-> FALSE, restoreTried |-> FALSE, restoreThrew |-> FALSE]

\* rows.findIndex((r) => r.id === id), 0 standing for -1
FindIndex(rows, id) ==
    IF \E i \in 1..Len(rows) : StrictEq(Get(rows[i], "id"), id)
    THEN CHOOSE i \in 1..Len(rows) :
            /\ StrictEq(Get(rows[i], "id"), id)
            /\ \A j \in 1..(i - 1) : ~StrictEq(Get(rows[j], "id"), id)
    ELSE 0

\* rows.filter((r) => r.id !== id)
FilterOut(rows, id) == SelectSeq(rows, LAMBDA r : ~StrictEq(Get(r, "id"), id))

\* CsvDatabase.addTodo
addTodo(todos, f, todo, fault) ==
    LET id == getNextId(todos)
        newTodo == Spread(todo, [id |-> id])
    IN  Wrote(writeCSV(f, Append(todos, newTodo), fault), id)

\* updateTodo that stores the updates in place of the row: todos[index] = updates
updateTodo_NoSpread(todos, f, id, updates, fault) ==
    LET index == FindIndex(todos, id)
    IN  IF index = 0 THEN Returned(f, Bool(FALSE))
        ELSE Wrote(writeCSV(f, [todos EXCEPT ![index] = updates], fault), Bool(TRUE))

\* CsvDatabase.updateTodo
updateTodo(todos, f, id, updates, fault) ==
    LET index == FindIndex(todos, id)
    IN  IF index = 0 THEN Returned(f, Bool(FALSE))
        ELSE Wrote(writeCSV(f, [todos EXCEPT ![index] = Spread(todos[index], updates)], fault),
                   Bool(TRUE))

\* deleteTodo without the length check: it writes and answers true always
deleteTodo_NoCheck(todos, f, id, fault) ==
    Wrote(writeCSV(f, FilterOut(todos, id), fault), Bool(TRUE))

\* CsvDatabase.deleteTodo
deleteTodo(todos, f, id, fault) ==
    LET filtered == FilterOut(todos, id)
    IN  IF Len(filtered) = Len(todos) THEN Returned(f, Bool(FALSE))
        ELSE Wrote(writeCSV(f, filtered, fault), Bool(TRUE))

(***************************************************************************)
(* crud.ts: insert / update / remove dispatch on the table name.           *)
(***************************************************************************)
\* the row crud.insert builds from the caller's data
InsertData(data) ==
    [text |-> JsOr(Get(data, "text"), Str("")),
     done |-> JsOr(Get(data, "done"), Num(0)),
     due_date |-> JsOr(Get(data, "due_date"), Null)]

\* the methods throw: new Error(`Unknown table: ${table}`)
Threw(f) ==
    [fs |-> f, threw |-> TRUE, value |-> Undefined,
     wrote |-> FALSE, restoreTried |-> FALSE, restoreThrew |-> FALSE]

insert(table, rows, f, data, fault) ==
    IF table = "todos" THEN addTodo(rows, f, InsertData(data), fault)
    ELSE Threw(f)

update(table, rows, f, id, data, fault) ==
    IF table = "todos" THEN updateTodo(rows, f, id, data, fault)
    ELSE Returned(f, Bool(FALSE))

remove(table, rows, f, id, fault) ==
    IF table = "todos" THEN deleteTodo(rows, f, id, fault)
    ELSE Returned(f, Bool(FALSE))

(***************************************************************************)
(* main.ts IPC handlers db:insert, db:update, db:remove: what the renderer *)
(* receives.  db:insert re-throws, db:update and db:remove answer false.   *)
(***************************************************************************)
Reply(rejected, value) == [rejected |-> rejected, value |-> value]

dbInsertReply(out) ==
    IF out.threw THEN Reply(TRUE, Undefined) ELSE Reply(FALSE, out.value)

dbUpdateReply(out) ==
    IF out.threw THEN Reply(FALSE, Bool(FALSE)) ELSE Reply(FALSE, out.value)

dbRemoveReply(out) ==
    IF out.threw THEN Reply(FALSE, Bool(FALSE)) ELSE Reply(FALSE, out.value)

(***************************************************************************)
(* index.ts: the data-migration runner and initDb.                         *)
(***************************************************************************)
\* const { subject_id, category, ...rest } = todo
StripV1(todo) == [k \in DOMAIN todo \ {"subject_id", "category"} |-> todo[k]]

\* a migration that appends the cleaned rows to the rows it read
MigrateV1_Append(oldTodos) == oldTodos \o [i \in 1..Len(oldTodos) |-> StripV1(oldTodos[i])]

\* oldTodos.map(...) of migration v1
MigrateV1(oldTodos) == [i \in 1..Len(oldTodos) |-> StripV1(oldTodos[i])]

\* the points at which a run of the migration can fail besides the write:
\* setDataVersion throwing, and the process stopping before it
MigrationFaults == {"setVersion", "stop"}

\* a runner that persists the new version before the transform and the write
runDataMigrations_BumpFirst(f, version, fault) ==
    IF ~(version < 1)
    THEN [fs |-> f, version |-> version, ran |-> FALSE, raised |-> FALSE, stopped |-> FALSE]
    ELSE LET w == writeCSV(f, MigrateV1(readCSV(f)), fault)
         IN  [fs |-> w.fs, version |-> 1, ran |-> TRUE, raised |-> FALSE,
              stopped |-> ~w.threw /\ fault.at = "stop"]

\* runDataMigrations on the todos files `f` with persisted version `version`
runDataMigrations(f, version, fault) ==
    IF ~(version < 1)
    THEN [fs |-> f, version |-> version, ran |-> FALSE, raised |-> FALSE, stopped |-> FALSE]
    ELSE LET oldTodos == readCSV(f)
             newTodos == MigrateV1(oldTodos)
             w == writeCSV(f, newTodos, fault)
         IN  IF w.threw
             THEN [fs |-> w.fs, version |-> version, ran |-> TRUE,
                   raised |-> FALSE, stopped |-> FALSE]
             ELSE IF fault.at = "stop"
             THEN [fs |-> w.fs, version |-> version, ran |-> TRUE,
                   raised |-> FALSE, stopped |-> TRUE]
             ELSE IF fault.at = "setVersion"
             THEN [fs |-> w.fs, version |-> version, ran |-> TRUE,
                   raised |-> FALSE, stopped |-> FALSE]
             ELSE [fs |-> w.fs, version |-> 1, ran |-> TRUE,
                   raised |-> FALSE, stopped |-> FALSE]

\* the todo initDb adds to an empty table
BeAwesome == [text |-> Str("Be awesome"), done |-> Num(0), due_date |-> Str("")]

\* initDb: seed the todos table when it is empty
initDb(f, fault) ==
    LET allTodos == readCSV(f)
    IN  IF Len(allTodos) = 0 THEN addTodo(allTodos, f, BeAwesome, fault)
        ELSE Returned(f, Undefined)

\* a ready handler that seeds the table before it migrates it
ReadySteps_InitFirst ==
    <<"initDb", "runDataMigrations", "createWindow", "createAppTray",
      "initNotificationsAndReminders">>

\* the body of the app.whenReady handler, in order
ReadySteps ==
    <<"runDataMigrations", "initDb", "createWindow", "createAppTray",
      "initNotificationsAndReminders">>

(***************************************************************************)
(* timerDatabase.ts.  A subject is a sequence of characters; a row of      *)
(* timer_data.csv has id, subject, date, total_minutes, last_updated.      *)
(***************************************************************************)
\* String.prototype.trim, the blank being the only whitespace modelled
trim(s) ==
    LET solid == {i \in 1..Len(s) : s[i] # " "}
    IN  IF solid = {} THEN <<>>
        ELSE SubSeq(s, CHOOSE i \in solid : \A j \in solid : i <= j,
                       CHOOSE i \in solid : \A j \in solid : j <= i)

\* String.prototype.toLowerCase on the modelled alphabet
toLowerCase(s) ==
    [i \in 1..Len(s) |-> IF s[i] = "M" THEN "m" ELSE IF s[i] = "B" THEN "b" ELSE s[i]]

\* a normalisation that trims and keeps the case
normalizeSubject_KeepCase(subject) == trim(subject)

\* TimerDatabase.normalizeSubject
normalizeSubject(subject) == toLowerCase(trim(subject))

\* getCurrentLocalDate(): the local calendar day of the run
Today == "d1"

\* a + b on JavaScript numbers
Plus(a, b) == IF a.t = "num" /\ b.t = "num" THEN Num(a.v + b.v) ELSE NaN

\* the per-row conversion of TimerDatabase.readCSV
timerConvertRow(row) ==
    [c \in DOMAIN row |->
        IF c \in {"id", "total_minutes"} THEN Number(row[c].v) ELSE row[c]]

\* TimerDatabase.readCSV
timerReadCSV(f) ==
    IF ~f.file.exists THEN <<>>
    ELSE LET data == PapaParse(f.file.csv)
         IN  [i \in 1..Len(data) |-> timerConvertRow(data[i])]

\* TimerDatabase.writeCSV: the same statements as CsvDatabase.writeCSV
timerWriteCSV(f, data, fault) == writeCSV(f, data, fault)

\* the headers TimerDatabase.ensureFilesExist writes
TimerHeaders ==
    [timer_data |-> {"id", "subject", "date", "total_minutes", "last_updated"},
     hidden_subjects |-> {"id", "subject", "hidden_at"}]

\* the two files of a timer database constructed on a new installation
TimerFresh ==
    [t \in DOMAIN TimerHeaders |->
        [NoFiles EXCEPT !.file = FileOf([cols |-> TimerHeaders[t], lines |-> <<>>])]]

\* the outcome of a TimerDatabase method: the files afterwards, whether it
\* threw and the value it returned
TimerOut(td, threw, value) ==
    [td |-> td, threw |-> threw, value |-> IF threw THEN Undefined ELSE value]

\* timerData.find(...): the index of the first entry for subject and date
FindEntry(timerData, normalizedSubject, actualDate) ==
    LET hits == {i \in 1..Len(timerData) :
                    /\ normalizeSubject(Get(timerData[i], "subject").v) = normalizedSubject
                    /\ StrictEq(Get(timerData[i], "date"), actualDate)}
    IN  IF hits = {} THEN 0 ELSE CHOOSE i \in hits : \A j \in hits : i <= j

\* addOrUpdateTimerData that stores the minutes of the call as the total
addOrUpdateTimerData_Overwrite(td, subject, date, minutesToAdd, now, fault) ==
    LET normalizedSubject == normalizeSubject(subject)
        actualDate == JsOr(date, Str(Today))
        timerData == timerReadCSV(td.timer_data)
        i == FindEntry(timerData, normalizedSubject, actualDate)
        newEntry == [id |-> getNextId(timerData), subject |-> Str(normalizedSubject),
                     date |-> actualDate, total_minutes |-> minutesToAdd,
                     last_updated |-> now]
        entries == IF i = 0 THEN Append(timerData, newEntry)
                   ELSE [timerData EXCEPT ![i] = [@ EXCEPT !.total_minutes = minutesToAdd,
                                                           !.last_updated = now]]
        w == timerWriteCSV(td.timer_data, entries, fault)
    IN  TimerOut([td EXCEPT !.timer_data = w.fs], w.threw,
                 IF i = 0 THEN newEntry ELSE entries[i])

\* TimerDatabase.addOrUpdateTimerData; `now` is new Date().toISOString()
addOrUpdateTimerData(td, subject, date, minutesToAdd, now, fault) ==
    LET normalizedSubject == normalizeSubject(subject)
        actualDate == JsOr(date, Str(Today))
        timerData == timerReadCSV(td.timer_data)
        i == FindEntry(timerData, normalizedSubject, actualDate)
    IN  IF i # 0
        THEN LET existingEntry ==
                     [timerData[i] EXCEPT !.total_minutes = Plus(@, minutesToAdd),
                                          !.last_updated = now]
                 w == timerWriteCSV(td.timer_data, [timerData EXCEPT ![i] = existingEntry],
                                    fault)
             IN  TimerOut([td EXCEPT !.timer_data = w.fs], w.threw, existingEntry)
        ELSE LET newEntry == [id |-> getNextId(timerData),
                              subject |-> Str(normalizedSubject),
                              date |-> actualDate, total_minutes |-> minutesToAdd,
                              last_updated |-> now]
                 w == timerWriteCSV(td.timer_data, Append(timerData, newEntry), fault)
             IN  TimerOut([td EXCEPT !.timer_data = w.fs], w.threw, newEntry)

\* TimerDatabase.getHiddenSubjects
getHiddenSubjects(td) ==
    LET hiddenSubjects == timerReadCSV(td.hidden_subjects)
    IN  [i \in 1..Len(hiddenSubjects) |-> Get(hiddenSubjects[i], "subject")]

\* [...new Set(list)]: the first occurrence of each value, in order
RECURSIVE Distinct(_)
Distinct(list) ==
    IF list = <<>> THEN <<>>
    ELSE LET front == Distinct(SubSeq(list, 1, Len(list) - 1))
             x == list[Len(list)]
         IN  IF \E i \in 1..Len(front) : front[i] = x THEN front ELSE Append(front, x)

\* a getAllSubjects that lists the hidden subjects too
getAllSubjects_Unfiltered(td) ==
    LET timerData == timerReadCSV(td.timer_data)
    IN  Distinct([i \in 1..Len(timerData) |-> Get(timerData[i], "subject")])

\* TimerDatabase.getAllSubjects
getAllSubjects(td) ==
    LET timerData == timerReadCSV(td.timer_data)
        hiddenSubjects == getHiddenSubjects(td)
        allSubjects == Distinct([i \in 1..Len(timerData) |-> Get(timerData[i], "subject")])
    IN  SelectSeq(allSubjects,
                  LAMBDA subject :
                      ~\E i \in 1..Len(hiddenSubjects) : hiddenSubjects[i] = subject)

\* the calendar days of the model in the order of their YYYY-MM-DD strings
DayNames == <<"d1", "d2", "d3", "d4", "d5", "d6">>

DayIndex(name) == CHOOSE i \in 1..Len(DayNames) : DayNames[i] = name

\* a <= b on two date strings
DateLeq(a, b) == DayIndex(a.v) <= DayIndex(b.v)

\* list.sort((a, b) => key(b) - key(a)), keys[i] being the key of list[i]:
\* descending, and stable
SortDescending(list, keys) ==
    LET rank(i) == 1 + Cardinality({j \in 1..Len(list) :
                                       \/ keys[j] > keys[i]
                                       \/ (keys[j] = keys[i] /\ j < i)})
    IN  [p \in 1..Len(list) |-> list[CHOOSE i \in 1..Len(list) : rank(i) = p]]

\* TimerDatabase.getTimerDataByDateRange
getTimerDataByDateRange(td, startDate, endDate) ==
    SelectSeq(timerReadCSV(td.timer_data),
              LAMBDA entry : /\ DateLeq(startDate, Get(entry, "date"))
                             /\ DateLeq(Get(entry, "date"), endDate))

\* the data an aggregation works on: the range when both bounds are truthy,
\* else getAllTimerData()
RangeData(td, startDate, endDate) ==
    IF Truthy(startDate) /\ Truthy(endDate)
    THEN getTimerDataByDateRange(td, startDate, endDate)
    ELSE timerReadCSV(td.timer_data)

\* total_minutes added up in the order of the rows, from `start`
RECURSIVE AddMinutes(_, _)
AddMinutes(rows, start) ==
    IF rows = <<>> THEN start
    ELSE AddMinutes(Tail(rows), Plus(start, Get(Head(rows), "total_minutes")))

\* totals.get(subject) after the forEach: (current || 0) + total_minutes, row
\* by row
RECURSIVE TotalOfRows(_, _)
TotalOfRows(rows, current) ==
    IF rows = <<>> THEN current
    ELSE TotalOfRows(Tail(rows),
                     Plus(IF Truthy(current) THEN current ELSE Num(0),
                          Get(Head(rows), "total_minutes")))

\* TimerDatabase.getSubjectTotalsByDateRange
getSubjectTotalsByDateRange(td, startDate, endDate) ==
    LET data == RangeData(td, startDate, endDate)
        subjects == Distinct([i \in 1..Len(data) |-> Get(data[i], "subject")])
        totals == [k \in 1..Len(subjects) |->
                      [subject |-> subjects[k],
                       total_minutes |->
                           TotalOfRows(SelectSeq(data, LAMBDA e : Get(e, "subject") = subjects[k]),
                                       Undefined)]]
    IN  SortDescending(totals, [k \in 1..Len(totals) |-> totals[k].total_minutes.v])

\* TimerDatabase.getDailyAggregatedData
getDailyAggregatedData(td, startDate, endDate) ==
    LET data == RangeData(td, startDate, endDate)
        dates == Distinct([i \in 1..Len(data) |-> Get(data[i], "date")])
        OfDate(d) == SelectSeq(data, LAMBDA e : Get(e, "date") = d)
        days == [k \in 1..Len(dates) |->
                    [date |-> dates[k],
                     total_minutes |-> AddMinutes(OfDate(dates[k]), Num(0)),
                     subjects |-> Distinct([i \in 1..Len(OfDate(dates[k])) |->
                                               Get(OfDate(dates[k])[i], "subject")])]]
    IN  SortDescending(days, [k \in 1..Len(days) |-> DayIndex(days[k].date.v)])

\* a getSubjectDateAggregatedData that looks at every entry
getSubjectDateAggregatedData_AllTime(td, startDate, endDate) ==
    LET data == timerReadCSV(td.timer_data)
    IN  SortDescending([i \in 1..Len(data) |->
                           [subject |-> Get(data[i], "subject"),
                            date |-> Get(data[i], "date"),
                            total_minutes |-> Get(data[i], "total_minutes")]],
                       [i \in 1..Len(data) |-> DayIndex(Get(data[i], "date").v)])

\* TimerDatabase.getSubjectDateAggregatedData
getSubjectDateAggregatedData(td, startDate, endDate) ==
    LET data == RangeData(td, startDate, endDate)
    IN  SortDescending([i \in 1..Len(data) |->
                           [subject |-> Get(data[i], "subject"),
                            date |-> Get(data[i], "date"),
                            total_minutes |-> Get(data[i], "total_minutes")]],
                       [i \in 1..Len(data) |-> DayIndex(Get(data[i], "date").v)])

\* a hideSubject without the test for a row that is already there
hideSubject_NoTest(td, subject, now, fault) ==
    LET normalizedSubject == normalizeSubject(subject)
        hiddenSubjects == timerReadCSV(td.hidden_subjects)
        newHiddenSubject == [id |-> getNextId(hiddenSubjects),
                             subject |-> Str(normalizedSubject),
                             hidden_at |-> now]
        w == timerWriteCSV(td.hidden_subjects,
                           Append(hiddenSubjects, newHiddenSubject), fault)
    IN  TimerOut([td EXCEPT !.hidden_subjects = w.fs], w.threw, Bool(TRUE))

\* TimerDatabase.hideSubject
hideSubject(td, subject, now, fault) ==
    LET normalizedSubject == normalizeSubject(subject)
        hiddenSubjects == timerReadCSV(td.hidden_subjects)
    IN  IF \E i \in 1..Len(hiddenSubjects) :
               StrictEq(Get(hiddenSubjects[i], "subject"), Str(normalizedSubject))
        THEN TimerOut(td, FALSE, Bool(FALSE))
        ELSE LET newHiddenSubject == [id |-> getNextId(hiddenSubjects),
                                      subject |-> Str(normalizedSubject),
                                      hidden_at |-> now]
                 w == timerWriteCSV(td.hidden_subjects,
                                    Append(hiddenSubjects, newHiddenSubject), fault)
             IN  TimerOut([td EXCEPT !.hidden_subjects = w.fs], w.threw, Bool(TRUE))

\* rows.filter((r) => r.subject !== normalizedSubject)
OtherSubjects(rows, normalizedSubject) ==
    SelectSeq(rows, LAMBDA r : ~StrictEq(Get(r, "subject"), Str(normalizedSubject)))

\* TimerDatabase.unhideSubject
unhideSubject(td, subject, fault) ==
    LET normalizedSubject == normalizeSubject(subject)
        hiddenSubjects == timerReadCSV(td.hidden_subjects)
        filtered == OtherSubjects(hiddenSubjects, normalizedSubject)
    IN  IF Len(filtered) = Len(hiddenSubjects) THEN TimerOut(td, FALSE, Bool(FALSE))
        ELSE LET w == timerWriteCSV(td.hidden_subjects, filtered, fault)
             IN  TimerOut([td EXCEPT !.hidden_subjects = w.fs], w.threw, Bool(TRUE))

\* a deleteSubjectCompletely that leaves hidden_subjects.csv alone
deleteSubjectCompletely_EntriesOnly(td, subject, fault) ==
    LET normalizedSubject == normalizeSubject(subject)
        timerData == timerReadCSV(td.timer_data)
        filteredTimerData == OtherSubjects(timerData, normalizedSubject)
        deleted == Len(filteredTimerData) < Len(timerData)
        w1 == IF deleted THEN timerWriteCSV(td.timer_data, filteredTimerData, fault)
              ELSE [fs |-> td.timer_data, threw |-> FALSE]
    IN  TimerOut([td EXCEPT !.timer_data = w1.fs], w1.threw, Bool(deleted))

\* TimerDatabase.deleteSubjectCompletely; the failure, if any, hits the first
\* of its writes
deleteSubjectCompletely(td, subject, fault) ==
    LET normalizedSubject == normalizeSubject(subject)
        timerData == timerReadCSV(td.timer_data)
        filteredTimerData == OtherSubjects(timerData, normalizedSubject)
        hiddenSubjects == timerReadCSV(td.hidden_subjects)
        filteredHiddenSubjects == OtherSubjects(hiddenSubjects, normalizedSubject)
        deleted == Len(filteredTimerData) < Len(timerData)
        w1 == IF deleted THEN timerWriteCSV(td.timer_data, filteredTimerData, fault)
              ELSE [fs |-> td.timer_data, threw |-> FALSE]
        f2 == IF deleted THEN NoFault ELSE fault
        w2 == IF ~w1.threw /\ Len(filteredHiddenSubjects) < Len(hiddenSubjects)
              THEN timerWriteCSV(td.hidden_subjects, filteredHiddenSubjects, f2)
              ELSE [fs |-> td.hidden_subjects, threw |-> FALSE]
    IN  TimerOut([td EXCEPT !.timer_data = w1.fs, !.hidden_subjects = w2.fs],
                 w1.threw \/ w2.threw, Bool(deleted))

(***************************************************************************)
(* store.ts: sessions, daily stats and subject totals in electron-store.   *)
(* Numbers of this section count halves, so that 3 stands for 1.5: the     *)
(* arguments callers pass need not be whole.  Instants are ticks.          *)
(***************************************************************************)
\* ticks in a local calendar day
TicksPerDay == 2

\* localDateString(new Date(t)): the local calendar day of an instant
localDateString(t) == <<"d1", "d2", "d3", "d4">>[(t \div TicksPerDay) + 1]

\* the UTC offsets of the machine, in ticks: half a day behind UTC, UTC,
\* half a day ahead
Offsets == {0 - 1, 0, 1}

\* the days of a month of the model calendar
DaysPerMonth == 2

\* a localDateString built from the UTC fields of the date
localDateStringAt_Utc(offset, t) == DayNames[(t \div TicksPerDay) + 1]

\* localDateString(new Date(t)) on a machine `offset` ticks ahead of UTC:
\* getFullYear, getMonth and getDate are the fields of the local time
localDateStringAt(offset, t) == DayNames[((t + offset) \div TicksPerDay) + 1]

\* date.toISOString().split("T")[0]: the UTC day of an instant
toISODate(t) == DayNames[(t \div TicksPerDay) + 1]

\* new Date(year, monthIndex, day): the instant of local midnight of the
\* day-th day of the year
LocalMidnight(offset, day) == (day - 1) * TicksPerDay - offset

\* getSessionsForMonth(year, month) within the year of the model
getSessionsForMonth(st, offset, month) ==
    LET startDate == DayNames[(month - 1) * DaysPerMonth + 1]
        endDate == toISODate(LocalMidnight(offset, month * DaysPerMonth))
        kept == SelectSeq(st.sessions,
                          LAMBDA r : LET d == localDateStringAt(offset, r.startTime)
                                     IN  /\ DayIndex(d) >= DayIndex(startDate)
                                         /\ DayIndex(d) <= DayIndex(endDate))
    IN  SortDescending(kept, [i \in 1..Len(kept) |-> kept[i].startTime])

\* the calendar of a machine at a UTC offset, nothing asked of it yet
CalendarAt(offset) ==
    [tz |-> offset, op |-> "none", arg |-> 0, value |-> <<>>, sessions |-> <<>>]

\* Math.max(0, Math.floor(v || 0))
SafeMinutes(v) ==
    IF v.t = "num" /\ (v.v \div 2) * 2 > 0 THEN (v.v \div 2) * 2 ELSE 0

\* String(subject || "").trim().toLowerCase() of a subject name
SubjectKeyOf(subject) == IF subject.t = "str" THEN toLowerCase(trim(subject.v)) ELSE <<>>

\* the store with nothing recorded
EmptyStore == [sessions |-> <<>>, dailyStats |-> <<>>, subjectTotals |-> <<>>]

\* the outcome of a store function: the store afterwards, whether it threw
\* and the value it returned
StoreOut(st, threw, value) ==
    [st |-> st, threw |-> threw, value |-> IF threw THEN Undefined ELSE value]

\* totals[key].totalTime += minutes, creating totals[key] when absent
TotalsPlus(totals, key, minutes) ==
    [k \in DOMAIN totals \cup {key} |->
        (IF k \in DOMAIN totals THEN totals[k] ELSE 0) + (IF k = key THEN minutes ELSE 0)]

\* addSubjectTotal / addSubject
addSubject(st, subjectName) ==
    LET key == SubjectKeyOf(subjectName)
    IN  IF key = <<>> THEN StoreOut(st, TRUE, Undefined)
        ELSE StoreOut([st EXCEPT !.subjectTotals = TotalsPlus(@, key, 0)], FALSE, Bool(TRUE))

\* incrementSubjectTotal
incrementSubjectTotal(st, subjectName, minutes) ==
    LET key == SubjectKeyOf(subjectName)
    IN  IF key = <<>> THEN StoreOut(st, TRUE, Undefined)
        ELSE StoreOut([st EXCEPT !.subjectTotals = TotalsPlus(@, key, SafeMinutes(minutes))],
                      FALSE, Bool(TRUE))

\* removeSubjectFromStore
removeSubjectFromStore(st, subjectName) ==
    LET key == SubjectKeyOf(subjectName)
    IN  IF key \in DOMAIN st.subjectTotals
        THEN StoreOut([st EXCEPT
                          !.subjectTotals = [k \in DOMAIN @ \ {key} |-> @[k]],
                          !.dailyStats = SelectSeq(@, LAMBDA r : r.subject # key)],
                      FALSE, Bool(TRUE))
        ELSE StoreOut(st, FALSE, Bool(FALSE))

\* addDailyStat: the row is stored before the subject total is incremented
addDailyStat(st, stat) ==
    LET row == [date |-> Get(stat, "date"),
                subject |-> SubjectKeyOf(Get(stat, "subject")),
                timeInSubject |-> SafeMinutes(Get(stat, "timeInSubject")),
                breakMinutes |-> SafeMinutes(Get(stat, "breakMinutes")),
                pauseMinutes |-> SafeMinutes(Get(stat, "pauseMinutes"))]
        pushed == [st EXCEPT !.dailyStats = Append(@, row)]
    IN  incrementSubjectTotal(pushed, Str(row.subject), Num(row.timeInSubject))

\* updateDailyStat
updateDailyStat(st, date, subject, increments) ==
    LET key == SubjectKeyOf(subject)
        safeInc == [f \in {"timeInSubject", "breakMinutes", "pauseMinutes"} |->
                       SafeMinutes(Get(increments, f))]
        daily == st.dailyStats
        hits == {i \in 1..Len(daily) : StrictEq(daily[i].date, date) /\ daily[i].subject = key}
        idx == IF hits = {} THEN 0 ELSE CHOOSE i \in hits : \A j \in hits : i <= j
        newRow == [date |-> date, subject |-> key, timeInSubject |-> safeInc.timeInSubject,
                   breakMinutes |-> safeInc.breakMinutes,
                   pauseMinutes |-> safeInc.pauseMinutes]
        row == [f \in DOMAIN newRow |->
                   IF f \in DOMAIN safeInc
                   THEN (IF daily[idx][f] + safeInc[f] > 0 THEN daily[idx][f] + safeInc[f] ELSE 0)
                   ELSE daily[idx][f]]
        delta == IF idx = 0 THEN safeInc.timeInSubject
                 ELSE row.timeInSubject - daily[idx].timeInSubject
        stored == [st EXCEPT !.dailyStats = IF idx = 0 THEN Append(@, newRow)
                                            ELSE [@ EXCEPT ![idx] = row]]
    IN  IF ~Truthy(date) \/ key = <<>> THEN StoreOut(st, TRUE, Undefined)
        ELSE IF delta > 0 THEN incrementSubjectTotal(stored, Str(key), Num(delta))
        ELSE StoreOut(stored, FALSE, Bool(TRUE))

\* "general", the subject of a session started without a name
General == <<"g", "e", "n", "e", "r", "a", "l">>

\* subjectName || "general", a subject name being a sequence of characters
OrGeneral(subjectName) ==
    IF subjectName.t = "str" /\ subjectName.v # <<>> THEN subjectName ELSE Str(General)

\* startSessionInStore; the id stands for makeSessionId()
startSessionInStore(st, subjectName, now) ==
    LET row == [id |-> Len(st.sessions) + 1,
                subjectName |-> trim(OrGeneral(subjectName).v),
                startTime |-> now, endTime |-> Undefined,
                durationMinutes |-> Undefined, pausedSeconds |-> Undefined]
    IN  StoreOut([st EXCEPT !.sessions = Append(@, row)], FALSE, Num(row.id))

\* timer.ts startSession with a subject name: addSubject, then the store
startSession(st, subjectIdentifier, now) ==
    LET subjectName == OrGeneral(subjectIdentifier)
        added == addSubject(st, subjectName)
    IN  IF added.threw THEN added ELSE startSessionInStore(added.st, subjectName, now)

\* arr.findIndex((r) => r.id === sessionId), 0 standing for -1
SessionIndex(arr, sessionId) ==
    IF \E i \in 1..Len(arr) : arr[i].id = sessionId
    THEN CHOOSE i \in 1..Len(arr) : arr[i].id = sessionId
    ELSE 0

\* a completion that also hands the paused time to the daily stats
completeSessionInStore_FoldPause(st, sessionId, durationMinutes, pausedSeconds, now) ==
    LET idx == SessionIndex(st.sessions, sessionId)
        row == [st.sessions[idx] EXCEPT !.endTime = Num(now),
                                        !.durationMinutes = Num(SafeMinutes(durationMinutes)),
                                        !.pausedSeconds = Num(SafeMinutes(pausedSeconds))]
        folded == updateDailyStat([st EXCEPT !.sessions[idx] = row],
                                  Str(localDateString(row.startTime)), Str(row.subjectName),
                                  [timeInSubject |-> row.durationMinutes,
                                   breakMinutes |-> Num(0),
                                   pauseMinutes |-> row.pausedSeconds])
    IN  IF idx = 0 THEN StoreOut(st, TRUE, Undefined)
        ELSE StoreOut(folded.st, folded.threw, Num(row.id))

\* completeSessionInStore (and the completeSession wrapper of timer.ts)
completeSessionInStore(st, sessionId, durationMinutes, pausedSeconds, now) ==
    LET idx == SessionIndex(st.sessions, sessionId)
        row == [st.sessions[idx] EXCEPT !.endTime = Num(now),
                                        !.durationMinutes = Num(SafeMinutes(durationMinutes)),
                                        !.pausedSeconds = Num(SafeMinutes(pausedSeconds))]
        folded == updateDailyStat([st EXCEPT !.sessions[idx] = row],
                                  Str(localDateString(row.startTime)), Str(row.subjectName),
                                  [timeInSubject |-> JsOr(row.durationMinutes, Num(0)),
                                   breakMinutes |-> Num(0), pauseMinutes |-> Num(0)])
    IN  IF idx = 0 THEN StoreOut(st, TRUE, Undefined)
        ELSE StoreOut(folded.st, folded.threw, Num(row.id))

\* Math.ceil(seconds / 60)
CeilMinutes(seconds) == ((seconds.v + 119) \div 120) * 2

\* the subjects under which sessions:saveProgress books break and pause time
BreakSubject == <<"b", "r", "e", "a", "k">>
PauseSubject == <<"p", "a", "u", "s", "e">>

\* updateSessionProgress: activeSeconds / 60 floored, in halves
updateSessionProgress(st, sessionId, activeSeconds, pausedSeconds) ==
    LET idx == SessionIndex(st.sessions, sessionId)
        minutes == IF activeSeconds.t = "num" /\ activeSeconds.v > 0
                   THEN (activeSeconds.v \div 120) * 2 ELSE 0
        row == [st.sessions[idx] EXCEPT !.durationMinutes = Num(minutes),
                                        !.pausedSeconds = Num(SafeMinutes(pausedSeconds))]
    IN  IF idx = 0 THEN StoreOut(st, FALSE, Null)
        ELSE StoreOut([st EXCEPT !.sessions[idx] = row], FALSE, Num(row.id))

(***************************************************************************)
(* Reminders: reminders.json, its loader and the checker's tick.  Every    *)
(* write of this section succeeds.                                         *)
(***************************************************************************)
\* normalizeTimestamp: a number as it is, a string of digits as its number,
\* null for null, undefined and text Date.parse cannot read
normalizeTimestamp(input) ==
    CASE input.t = "num" -> input
      [] input.t = "str" ->
            IF input.v # "" /\ Number(input.v).t = "num" /\ Number(input.v).v >= 0
            THEN Number(input.v) ELSE Null
      [] OTHER -> Null

\* the Reminder built from a stored or a passed object
AsReminder(r) ==
    [id |-> r.id, title |-> r.title,
     body |-> IF Truthy(r.body) THEN r.body ELSE Undefined,
     timestamp |-> normalizeTimestamp(r.timestamp)]

\* a loader that reads a timestamp it cannot interpret as 0
loadReminders_ZeroForBad(file) ==
    [i \in 1..Len(file) |->
        [AsReminder(file[i]) EXCEPT !.timestamp = IF @ = Null THEN Num(0) ELSE @]]

\* loadReminders: entries whose timestamp cannot be interpreted are skipped
loadReminders(file) ==
    SelectSeq([i \in 1..Len(file) |-> AsReminder(file[i])], LAMBDA r : r.timestamp # Null)

\* saveReminders: the content of reminders.json after the write
saveReminders(list) ==
    [i \in 1..Len(list) |-> [id |-> list[i].id, title |-> list[i].title,
                             body |-> list[i].body, timestamp |-> list[i].timestamp]]

\* a sort that puts a reminder before those of the same timestamp
RECURSIVE sortByTimestamp_TiesFirst(_)
sortByTimestamp_TiesFirst(list) ==
    IF list = <<>> THEN <<>>
    ELSE LET sorted == sortByTimestamp_TiesFirst(SubSeq(list, 1, Len(list) - 1))
             r == list[Len(list)]
             k == Cardinality({i \in 1..Len(sorted) : sorted[i].timestamp.v < r.timestamp.v})
         IN  SubSeq(sorted, 1, k) \o <<r>> \o SubSeq(sorted, k + 1, Len(sorted))

\* list.sort((a, b) => (a.timestamp || 0) - (b.timestamp || 0)), a stable sort
RECURSIVE sortByTimestamp(_)
sortByTimestamp(list) ==
    IF list = <<>> THEN <<>>
    ELSE LET sorted == sortByTimestamp(SubSeq(list, 1, Len(list) - 1))
             r == list[Len(list)]
             k == Cardinality({i \in 1..Len(sorted) : sorted[i].timestamp.v <= r.timestamp.v})
         IN  SubSeq(sorted, 1, k) \o <<r>> \o SubSeq(sorted, k + 1, Len(sorted))

\* the steps of saveReminders that can fail: writing the temporary file,
\* renaming reminders.json to the backup, renaming the temporary file
ReminderFaultPoints == {"temp", "backup", "rename"}

\* no backup of reminders.json
NoBackup == [exists |-> FALSE, list |-> <<>>]

\* saveReminders on the disk: reminders.json and its backup afterwards, and
\* whether it threw.  The catch block renames the backup, if there is one,
\* onto reminders.json and rethrows
saveRemindersAt(file, bak, list, at) ==
    LET restored(f, b) == IF b.exists THEN [file |-> b.list, bak |-> NoBackup, threw |-> TRUE]
                          ELSE [file |-> f, bak |-> b, threw |-> TRUE]
    IN  CASE at \in {"temp", "backup"} -> restored(file, bak)
          [] at = "rename" -> restored(file, [exists |-> TRUE, list |-> file])
          [] OTHER -> [file |-> saveReminders(list), bak |-> [exists |-> TRUE, list |-> file],
                       threw |-> FALSE]

\* the outcome of a reminder operation: the file, what was shown, whether
\* the file was written and whether the operation threw
ReminderOut(file, fired, wrote, threw) ==
    [file |-> file, fired |-> fired, wrote |-> wrote, threw |-> threw]

\* a tick that takes a reminder whose time is exactly now as not yet due
check_Strict(file, time) ==
    LET list == loadReminders(file)
        due == SelectSeq(list, LAMBDA r : r.timestamp.v < time)
        remaining == SelectSeq(list, LAMBDA r : r.timestamp.v > time)
    IN  IF list = <<>> \/ due = <<>> THEN ReminderOut(file, <<>>, FALSE, FALSE)
        ELSE ReminderOut(saveReminders(remaining), due, TRUE, FALSE)

\* check, the tick of startReminderChecker
check(file, time) ==
    LET list == loadReminders(file)
        due == SelectSeq(list, LAMBDA r : r.timestamp.v <= time)
        remaining == SelectSeq(list, LAMBDA r : r.timestamp.v > time)
    IN  IF list = <<>> \/ due = <<>> THEN ReminderOut(file, <<>>, FALSE, FALSE)
        ELSE ReminderOut(saveReminders(remaining), due, TRUE, FALSE)

\* a handler of reminder:add that stores a reminder it cannot date at time 0
reminderAdd_DefaultTime(file, rem) ==
    LET item == [AsReminder(rem) EXCEPT !.timestamp = IF @ = Null THEN Num(0) ELSE @]
    IN  ReminderOut(saveReminders(sortByTimestamp(Append(loadReminders(file), item))),
                    <<>>, TRUE, FALSE)

\* the handler of reminder:add
reminderAdd(file, rem) ==
    LET item == AsReminder(rem)
    IN  IF item.timestamp = Null THEN ReminderOut(file, <<>>, FALSE, TRUE)
        ELSE ReminderOut(saveReminders(sortByTimestamp(Append(loadReminders(file), item))),
                         <<>>, TRUE, FALSE)

(***************************************************************************)
(* scheduleWithClampedTimeout.  A number of milliseconds n is written as   *)
(* [hi, lo] with n = hi * MAX_SAFE_TIMEOUT + lo and lo < MAX_SAFE_TIMEOUT, *)
(* so that delays beyond 2^31-1 are computed without overflow; a requested *)
(* delay also carries its sign and whether it has a fractional part.       *)
(***************************************************************************)
MAX_SAFE_TIMEOUT == 2147483647

Ms(hi, lo) == [hi |-> hi, lo |-> lo]

MaxSafe == Ms(1, 0)

MsLeq(a, b) == a.hi < b.hi \/ (a.hi = b.hi /\ a.lo <= b.lo)

MathMin(a, b) == IF MsLeq(a, b) THEN a ELSE b

\* a - b for b <= a
MsMinus(a, b) ==
    IF a.lo >= b.lo THEN Ms(a.hi - b.hi, a.lo - b.lo)
    ELSE Ms(a.hi - b.hi - 1, MAX_SAFE_TIMEOUT - (b.lo - a.lo))

MsPlus(a, b) ==
    IF a.lo >= MAX_SAFE_TIMEOUT - b.lo
    THEN Ms(a.hi + b.hi + 1, a.lo - (MAX_SAFE_TIMEOUT - b.lo))
    ELSE Ms(a.hi + b.hi, a.lo + b.lo)

\* Math.max(0, Math.floor(delayMs)): the floor of a negative delay is
\* negative, the floor of a positive one drops the fraction
MaxZeroFloor(delayMs) ==
    IF delayMs.neg THEN Ms(0, 0) ELSE Ms(delayMs.hi, delayMs.lo)

\* the closure of one call before step() has run
Scheduled(delayMs, n) ==
    [live |-> TRUE, calls |-> n, cancels |-> 0, cancelled |-> FALSE,
     remaining |-> MaxZeroFloor(delayMs), target |-> MaxZeroFloor(delayMs),
     pending |-> 0, handles |-> <<>>, waits |-> <<>>, invoked |-> 0,
     lateWait |-> FALSE, lateInvoke |-> FALSE]

\* a step that hands the whole remainder to setTimeout
scheduleStep_NoClamp(c) ==
    IF c.cancelled THEN c
    ELSE [c EXCEPT !.remaining = Ms(0, 0),
                   !.pending = Len(c.waits) + 1,
                   !.waits = Append(@, c.remaining),
                   !.handles = Append(@, Len(c.waits) + 1)]

\* step(): nothing when cancelled; else a setTimeout of
\* min(remaining, MAX_SAFE_TIMEOUT), taken off remaining, and its handle kept
scheduleStep(c) ==
    IF c.cancelled THEN c
    ELSE LET take == MathMin(c.remaining, MaxSafe)
         IN  [c EXCEPT !.remaining = MsMinus(c.remaining, take),
                       !.pending = Len(c.waits) + 1,
                       !.waits = Append(@, take),
                       !.handles = Append(@, Len(c.waits) + 1)]

\* the callback of setTimeout: nothing when cancelled, fn() when nothing
\* remains (what fn throws is swallowed), else the next step()
timeoutCallback(c) ==
    LET fired == [c EXCEPT !.pending = 0]
    IN  IF c.cancelled THEN fired
        ELSE IF fired.remaining = Ms(0, 0)
             THEN [fired EXCEPT !.invoked = @ + 1]
             ELSE scheduleStep(fired)

\* cancel(): sets the flag and clears every timeout whose handle is kept
cancel(c) ==
    [c EXCEPT !.cancelled = TRUE,
              !.cancels = @ + 1,
              !.pending = IF c.pending \in {c.handles[i] : i \in 1..Len(c.handles)}
                          THEN 0 ELSE @,
              !.handles = <<>>]

\* no call of scheduleWithClampedTimeout has been made
Unscheduled ==
    [live |-> FALSE, calls |-> 0, cancels |-> 0, cancelled |-> FALSE,
     remaining |-> Ms(0, 0), target |-> Ms(0, 0), pending |-> 0,
     handles |-> <<>>, waits |-> <<>>, invoked |-> 0,
     lateWait |-> FALSE, lateInvoke |-> FALSE]

\* the checker before startReminderChecker: reminderCheckerHandle is null
\* (0), no interval timer is live, no tick is running
CheckerIdle ==
    [handle |-> 0, timers |-> {}, made |-> 0, starts |-> 0, running |-> <<>>,
     quit |-> FALSE, ticked |-> FALSE, late |-> FALSE]

\* a startReminderChecker without the test of reminderCheckerHandle
startReminderChecker_NoGuard(c) ==
    [c EXCEPT !.handle = c.made + 1, !.timers = @ \cup {c.made + 1}, !.made = @ + 1]

\* startReminderChecker apart from its first tick: nothing when a handle is
\* held, else setInterval and the handle of the new timer
startReminderChecker(c) ==
    IF c.handle # 0 THEN c
    ELSE [c EXCEPT !.handle = c.made + 1, !.timers = @ \cup {c.made + 1}, !.made = @ + 1]

\* stopReminderChecker: clearInterval on the held handle
stopReminderChecker(c) ==
    IF c.handle # 0 THEN [c EXCEPT !.timers = @ \ {c.handle}, !.handle = 0] ELSE c

\* whether check hands control back to the event loop between loading and
\* saving: it is a synchronous function
CheckYields_Await == TRUE
CheckYields == FALSE

\* the handler of reminder:remove
reminderRemove(file, id) ==
    ReminderOut(saveReminders(SelectSeq(loadReminders(file), LAMBDA r : r.id # id)),
                <<>>, TRUE, FALSE)

\* the body of the sessions:saveProgress handler; its inner failures are
\* logged and swallowed
saveProgress(st, payload, now) ==
    LET sessionId == Get(payload, "sessionId")
        pausedSeconds == JsOr(Get(payload, "pausedSeconds"), Num(0))
        breakSeconds == JsOr(Get(payload, "breakSeconds"), Num(0))
        progressed == IF Truthy(sessionId)
                      THEN updateSessionProgress(st, sessionId.v,
                               JsOr(Get(payload, "activeSeconds"), Num(0)), pausedSeconds).st
                      ELSE st
        date == Str(localDateString(now))
        afterBreak == IF breakSeconds.v > 0
                      THEN updateDailyStat(progressed, date, Str(BreakSubject),
                               [breakMinutes |-> Num(CeilMinutes(breakSeconds))]).st
                      ELSE progressed
        afterPause == IF Truthy(Get(payload, "persistPause")) /\ pausedSeconds.v > 0
                      THEN updateDailyStat(afterBreak, date, Str(PauseSubject),
                               [pauseMinutes |-> Num(CeilMinutes(pausedSeconds))]).st
                      ELSE afterBreak
    IN  StoreOut(afterPause, FALSE, Bool(TRUE))

(***************************************************************************)
(* crud.ts: query(table, where, {orderBy, limit}) over the rows csvDb      *)
(* returns. An orderBy string is the sequence of its characters.           *)
(***************************************************************************)
\* s.split(" ")
RECURSIVE SplitOnSpace(_)
SplitOnSpace(chars) ==
    IF \A i \in 1..Len(chars) : chars[i] # " " THEN <<chars>>
    ELSE LET k == CHOOSE i \in 1..Len(chars) :
                      chars[i] = " " /\ \A j \in 1..(i - 1) : chars[j] # " "
         IN  <<SubSeq(chars, 1, k - 1)>> \o SplitOnSpace(SubSeq(chars, k + 1, Len(chars)))

\* the string a sequence of characters spells
RECURSIVE Joined(_)
Joined(chars) == IF chars = <<>> THEN "" ELSE chars[1] \o Joined(Tail(chars))

\* ToNumber of a boolean operand of ==
Primitive(a) == IF a.t = "bool" THEN Num(IF a.v THEN 1 ELSE 0) ELSE a

\* a == b
LooseEq(a, b) ==
    LET x == Primitive(a)
        y == Primitive(b)
    IN  CASE x.t = y.t -> StrictEq(x, y)
          [] {x.t, y.t} = {"null", "undefined"} -> TRUE
          [] x.t = "num" /\ y.t = "str" -> StrictEq(x, Number(y.v))
          [] x.t = "str" /\ y.t = "num" -> StrictEq(Number(x.v), y)
          [] OTHER -> FALSE

\* a < b on cells: numbers by value, the date strings of the model by their
\* order; false when an operand is undefined
JsLess(a, b) ==
    CASE a.t = "num" /\ b.t = "num" -> a.v < b.v
      [] a.t = "str" /\ b.t = "str" -> DayIndex(a.v) < DayIndex(b.v)
      [] OTHER -> FALSE

\* the comparator of query's data.sort
CompareRows(a, b, field, direction) ==
    LET aVal == Get(a, field)
        bVal == Get(b, field)
    IN  IF JsLess(aVal, bVal) THEN (IF direction = "DESC" THEN 1 ELSE 0 - 1)
        ELSE IF JsLess(bVal, aVal) THEN (IF direction = "DESC" THEN 0 - 1 ELSE 1)
        ELSE 0

\* data.sort(comparator): Array.prototype.sort is stable
RECURSIVE SortRows(_, _, _)
SortRows(data, field, direction) ==
    IF Len(data) <= 1 THEN data
    ELSE LET rest == SortRows(Tail(data), field, direction)
             k == Cardinality({i \in 1..Len(rest) :
                                  CompareRows(data[1], rest[i], field, direction) > 0})
         IN  SubSeq(rest, 1, k) \o <<data[1]>> \o SubSeq(rest, k + 1, Len(rest))

\* the filter step of query: every where entry == the row's field
WhereFilter(data, where) ==
    IF DOMAIN where # {}
    THEN SelectSeq(data, LAMBDA item : \A key \in DOMAIN where :
                                           LooseEq(Get(item, key), where[key]))
    ELSE data

\* the sort step of query: const [field, direction = "ASC"] = orderBy.split(" ")
OrderBy(data, options) ==
    IF "orderBy" \in DOMAIN options /\ options.orderBy # <<>>
    THEN LET parts == SplitOnSpace(options.orderBy)
             field == Joined(parts[1])
             direction == IF Len(parts) >= 2 THEN Joined(parts[2]) ELSE "ASC"
         IN  SortRows(data, field, direction)
    ELSE data

\* the slice step of query
Limit(data, options) ==
    IF "limit" \in DOMAIN options /\ options.limit # 0
    THEN SubSeq(data, 1, IF options.limit < Len(data) THEN options.limit ELSE Len(data))
    ELSE data

\* crud.query on the tables csvDb holds; any other table name answers []
query(tables, table, where, options) ==
    IF table \notin DOMAIN tables THEN <<>>
    ELSE Limit(OrderBy(WhereFilter(tables[table], where), options), options)

\* no to-do and no note yet, no query made
QueryIdle ==
    [tables |-> [todos |-> <<>>, notes |-> <<>>], op |-> "none", table |-> "",
     where |-> <<>>, options |-> <<>>, value |-> <<>>]

(***************************************************************************)
(* State.                                                                  *)
(***************************************************************************)
VARIABLES
    disk,         \* table name -> its three files on disk
    dataVersion,  \* store.get("dataVersion", 0), persisted
    proc,         \* "off", "up", or "aborted" (the ready handler threw)
    step,         \* how many entries of ReadySteps have completed
    boots,        \* process starts so far
    calls,        \* handler invocations so far
    faults,       \* failures injected so far
    last,         \* the most recent operation and its outcome
    assigned,     \* table -> ids that rows of it have held
    expected,     \* table -> rows implied by the operations since startup
    clean,        \* table -> well-formed at startup and no write failed since
    migRuns,      \* runs of runDataMigrations in this process
    earlyOp,      \* a table operation ran before runDataMigrations returned
    partial,      \* what a stopped migration attempt left in todos.csv
    queue,        \* event loop: requests delivered and not yet dispatched
    inflight      \* event loop: handlers that have read and not yet written

VARIABLES
    timerDisk,    \* timer_data.csv and hidden_subjects.csv: their three files each
    timerSums,    \* (subject, date) -> the minutes added since the entry was created
    timerHid,     \* the subjects hidden with success and not unhidden since, and
                  \* those neither unhidden nor deleted since
    timerLast     \* the most recent timer operation and its outcome

VARIABLES
    store,        \* electron-store: sessions, dailyStats and subjectTotals
    now,          \* Date.now(), in ticks
    storeLast,    \* the most recent store operation, the store before it, its outcome
    storeApplied, \* (date, subject) -> timeInSubject applied outside session completion
    storePurged   \* whether removeSubjectFromStore has deleted daily stats

VARIABLES
    remFile,      \* reminders.json: the stored entries
    remLast,      \* the most recent reminder operation, the file before it, its outcome
    remBak,       \* reminders.json.bak
    remShown,     \* the reminders shown and not added again since, and whether
                  \* the most recent tick showed one of them again
    checker,      \* the reminder checker: its handle, the live interval timers,
                  \* the ticks that are running
    sched,        \* the closure of a call of scheduleWithClampedTimeout
    cal,          \* the UTC offset of the machine, the last calendar query and
                  \* the sessions it saw
    qry           \* the to-dos and notes csvDb holds, the last query and its answer

vars == <<disk, dataVersion, proc, step, boots, calls, faults, last, assigned,
          expected, clean, migRuns, earlyOp, partial, queue, inflight,
          timerDisk, timerSums, timerHid, timerLast,
          store, now, storeLast, storeApplied, storePurged, remFile, remLast,
          remBak, remShown, checker, sched, cal, qry>>

\* the variables of the csvDb tables, startup and the event loop
csvVars == <<disk, dataVersion, proc, step, boots, last, assigned,
             expected, clean, migRuns, earlyOp, partial, queue, inflight>>

timerVars == <<timerDisk, timerSums, timerHid, timerLast>>

storeVars == <<store, now, storeLast, storeApplied, storePurged>>

remVars == <<remFile, remLast, remBak, remShown>>

\* what the operations on the csvDb tables leave alone
exceptCsv == <<timerVars, storeVars, remVars, checker, sched, cal, qry>>

\* what the operations on the timer database leave alone
exceptTimer == <<csvVars, storeVars, remVars, checker, sched, cal, qry>>

\* what the operations on the store leave alone
exceptStore == <<csvVars, timerVars, remVars, checker, sched, cal, qry>>

\* what the operations on the reminders leave alone, the clock apart
exceptReminders == <<csvVars, timerVars, store, storeLast, storeApplied, storePurged,
                     sched, cal, qry>>

exceptSched == <<csvVars, calls, faults, timerVars, storeVars, remVars, checker, cal,
                 qry>>

exceptCalendar == <<csvVars, faults, timerVars, storeLast, storeApplied, storePurged,
                    remVars, checker, sched, qry>>

\* what the query operations leave alone
exceptQuery == <<csvVars, faults, timerVars, storeVars, remVars, checker, sched, cal>>

Range(seq) == {seq[i] : i \in 1..Len(seq)}

(***************************************************************************)
(* Installations the program starts from.                                  *)
(***************************************************************************)
\* todos.csv as written before migration v1: subject_id and category columns
LegacyTodos ==
    [cols |-> Headers("todos") \cup {"subject_id", "category"},
     lines |-> << [id |-> "1", text |-> "a", done |-> "0", due_date |-> "",
                   subject_id |-> "2", category |-> "c"] >>]

\* a migrated todos.csv one of whose rows has a non-numeric id
DamagedTodos ==
    [cols |-> Headers("todos"),
     lines |-> << [id |-> "1", text |-> "a", done |-> "0", due_date |-> ""],
                  [id |-> "x", text |-> "b", done |-> "0", due_date |-> ""] >>]

InstallWith(todosFile, version) ==
    [disk |-> [t \in Tables |-> IF t = "todos" THEN [NoFiles EXCEPT !.file = todosFile]
                                ELSE NoFiles],
     dataVersion |-> version]

Installs ==
    { InstallWith(Absent, 0),
      InstallWith(FileOf(LegacyTodos), 0),
      InstallWith(FileOf(DamagedTodos), 1) }

\* an installation after an undisturbed start: module load, then the ready
\* handler's runDataMigrations and initDb
Started(inst) ==
    LET d0 == [t \in Tables |-> ensureFilesExist(inst.disk[t], t)]
        m == runDataMigrations(d0["todos"], inst.dataVersion, NoFault)
        i == initDb(m.fs, NoFault)
    IN  [disk |-> [d0 EXCEPT !["todos"] = i.fs], dataVersion |-> m.version]

(***************************************************************************)
(* Inputs.                                                                 *)
(***************************************************************************)
\* table names a request can carry: a table of csvDb, or none of them
TableInputs == Tables \cup {"sessions"}

InsertInputs == {[text |-> Str("a")], [text |-> Str("b"), due_date |-> Str("d")]}

UpdateInputs == {[done |-> Num(1)]}

IdInputs == {Num(i) : i \in 1..MaxId}

\* the failures that can fire during a write to files f
FaultChoices(f) ==
    {NoFault} \cup
    IF faults < MaxFaults
    THEN {[at |-> "temp", restore |-> r] : r \in {b \in BOOLEAN : b => f.bak.exists}}
         \cup {[at |-> "backup", restore |-> r] :
                  r \in {b \in BOOLEAN : f.file.exists /\ (b => f.bak.exists)}}
         \cup {[at |-> "rename", restore |-> r] :
                  r \in {b \in BOOLEAN : b => (f.file.exists \/ f.bak.exists)}}
    ELSE {}

NoPartial == [is |-> FALSE, csv |-> EmptyCsv]

NoLast ==
    [op |-> "none", table |-> "", arg |-> Undefined, fault |-> NoFault,
     before |-> NoFiles, threw |-> FALSE, wrote |-> FALSE, restoreThrew |-> FALSE,
     reply |-> Reply(FALSE, Undefined), miss |-> FALSE, reused |-> FALSE,
     v0 |-> 0, ran |-> FALSE, stopped |-> FALSE, fresh |-> TRUE, prior |-> NoPartial]

\* all rows carry exactly the table's columns and distinct numeric ids
SchemaOK(table, rows) ==
    /\ \A i \in 1..Len(rows) : DOMAIN rows[i] = Headers(table) /\ rows[i]["id"].t = "num"
    /\ \A i, j \in 1..Len(rows) : rows[i]["id"] = rows[j]["id"] => i = j

IdsOf(f) == {Get(r, "id") : r \in Range(readCSV(f))}

\* the subjects callers pass, each with the subject it stands for
SubjectInputs ==
    { [raw |-> <<"M">>, key |-> <<"m">>],
      [raw |-> <<" ", "m", " ">>, key |-> <<"m">>],
      [raw |-> <<"b">>, key |-> <<"b">>] }

\* the dates callers pass, each with the day it stands for: a date, or none
DateInputs == { [arg |-> Str("d2"), key |-> "d2"], [arg |-> Undefined, key |-> Today] }

\* the minutes callers pass
DeltaInputs == {0 - 1, 2}

TimerKeys == {<<s.key, d.key>> : s \in SubjectInputs, d \in DateInputs}

NoTimerLast ==
    [op |-> "none", key |-> <<>>, minutes |-> 0, before |-> <<>>,
     hiddenBefore |-> <<>>, threw |-> FALSE, value |-> Undefined]

\* the timer database as its constructor leaves it on a new installation
TimerIdle ==
    /\ timerDisk = TimerFresh
    /\ timerSums = [k \in TimerKeys |-> [has |-> FALSE, sum |-> 0]]
    /\ timerHid = [kept |-> {}, live |-> {}]
    /\ timerLast = NoTimerLast

NoStoreLast ==
    [op |-> "none", id |-> 0, args |-> <<>>, before |-> EmptyStore, threw |-> FALSE,
     rejected |-> FALSE, value |-> Undefined]

\* the store of a new installation
StoreIdle ==
    /\ store = EmptyStore
    /\ now = 1
    /\ storeLast = NoStoreLast
    /\ storeApplied = <<>>
    /\ storePurged = FALSE

NoRemLast ==
    [op |-> "none", arg |-> Undefined, before |-> <<>>, time |-> 0, fired |-> <<>>,
     wrote |-> FALSE, threw |-> FALSE]

\* reminders.json of an installation: ensureRemindersFilePath writes [] when
\* the installation has none
RemindersOf(inst) ==
    /\ remFile = IF "reminders" \in DOMAIN inst THEN inst.reminders ELSE <<>>
    /\ remLast = NoRemLast
    /\ remBak = NoBackup
    /\ remShown = [seen |-> {}, again |-> FALSE]
    /\ checker = CheckerIdle
    /\ sched = Unscheduled

\* what holds of every initial state, whatever the process is doing
InstalledOn(inst) ==
    /\ disk = inst.disk
    /\ dataVersion = inst.dataVersion
    /\ calls = 0
    /\ faults = 0
    /\ last = NoLast
    /\ assigned = [t \in Tables |-> IdsOf(inst.disk[t])]
    /\ expected = [t \in Tables |-> Range(readCSV(inst.disk[t]))]
    /\ clean = [t \in Tables |-> SchemaOK(t, readCSV(inst.disk[t]))]
    /\ earlyOp = FALSE
    /\ partial = NoPartial
    /\ queue = {}
    /\ inflight = {}
    /\ TimerIdle
    /\ StoreIdle
    /\ RemindersOf(inst)
    /\ qry = QueryIdle

\* the state after construction on an installation, the machine on UTC
InitOn(inst) ==
    /\ InstalledOn(inst)
    /\ cal = CalendarAt(0)

\* the application is installed and not running
InitBoot ==
    /\ \E inst \in Installs : InitOn(inst)
    /\ proc = "off"
    /\ step = 0
    /\ boots = 0
    /\ migRuns = 0

\* the application has started and its window is open
Init ==
    /\ \E inst \in Installs : InitOn(Started(inst))
    /\ proc = "up"
    /\ step = Len(ReadySteps)
    /\ boots = 1
    /\ migRuns = 1

(***************************************************************************)
(* Startup: app.whenReady().then(...) runs ReadySteps in order.            *)
(***************************************************************************)
NextReady(name) ==
    proc = "up" /\ step < Len(ReadySteps) /\ ReadySteps[step + 1] = name

\* the renderer exists, so IPC requests can arrive
WindowOpen == proc = "up" /\ \E i \in 1..step : ReadySteps[i] = "createWindow"

Fired(fault) == IF fault.at = "none" THEN 0 ELSE 1

\* what the operations since startup imply for a table
AfterInsert(rows, row, out) ==
    IF out.threw THEN rows ELSE rows \cup {Spread(row, [id |-> out.value])}
AfterUpdate(rows, id, data, out) ==
    IF out.threw \/ out.value # Bool(TRUE) THEN rows
    ELSE {IF StrictEq(Get(r, "id"), id) THEN Spread(r, data) ELSE r : r \in rows}
AfterRemove(rows, id, out) ==
    IF out.threw \/ out.value # Bool(TRUE) THEN rows
    ELSE {r \in rows : ~StrictEq(Get(r, "id"), id)}

\* module load (csvDb is constructed on import) and the ready event
Launch ==
    /\ proc = "off"
    /\ boots < MaxBoots
    /\ proc' = "up"
    /\ step' = 0
    /\ boots' = boots + 1
    /\ migRuns' = 0
    /\ disk' = [t \in Tables |-> ensureFilesExist(disk[t], t)]
    /\ last' = [NoLast EXCEPT !.op = "launch"]
    /\ UNCHANGED exceptCsv
    /\ UNCHANGED <<dataVersion, calls, faults, assigned, expected, clean, earlyOp,
                   partial, queue, inflight>>

RunDataMigrations ==
    /\ NextReady("runDataMigrations")
    /\ \E fault \in
            IF dataVersion < 1
            THEN FaultChoices(disk["todos"]) \cup
                 {[at |-> m, restore |-> FALSE] : m \in {x \in MigrationFaults : faults < MaxFaults}}
            ELSE {NoFault} :
         LET r == runDataMigrations(disk["todos"], dataVersion, fault)
             d == [disk EXCEPT !["todos"] = r.fs]
         IN  /\ disk' = d
             /\ dataVersion' = r.version
             /\ proc' = IF r.stopped THEN "off" ELSE IF r.raised THEN "aborted" ELSE "up"
             /\ faults' = faults + Fired(fault)
             /\ last' = [NoLast EXCEPT !.op = "migrate", !.table = "todos", !.fault = fault,
                                       !.before = disk["todos"], !.wrote = r.ran,
                                       !.threw = r.raised,
                                       !.v0 = dataVersion, !.ran = r.ran,
                                       !.stopped = r.stopped, !.prior = partial]
             /\ expected' = [t \in Tables |-> Range(readCSV(d[t]))]
             /\ clean' = [t \in Tables |-> SchemaOK(t, readCSV(d[t]))]
             /\ assigned' = [t \in Tables |-> assigned[t] \cup IdsOf(d[t])]
             /\ partial' = IF r.stopped THEN [is |-> TRUE, csv |-> r.fs.file.csv]
                           ELSE NoPartial
    /\ step' = step + 1
    /\ migRuns' = migRuns + 1
    /\ UNCHANGED exceptCsv
    /\ UNCHANGED <<boots, calls, earlyOp, queue, inflight>>

InitDb ==
    /\ NextReady("initDb")
    /\ \E fault \in
            IF Len(readCSV(disk["todos"])) = 0 THEN FaultChoices(disk["todos"]) ELSE {NoFault} :
         LET out == initDb(disk["todos"], fault)
         IN  /\ disk' = [disk EXCEPT !["todos"] = out.fs]
             /\ proc' = IF out.threw THEN "aborted" ELSE "up"
             /\ step' = IF out.threw THEN step ELSE step + 1
             /\ faults' = faults + Fired(fault)
             /\ last' = [NoLast EXCEPT !.op = "initDb", !.table = "todos", !.fault = fault,
                                       !.before = disk["todos"], !.threw = out.threw,
                                       !.wrote = out.wrote, !.restoreThrew = out.restoreThrew,
                                       !.reply = Reply(out.threw, out.value),
                                       !.reused = (out.wrote /\ ~out.threw
                                                   /\ out.value \in assigned["todos"])]
             /\ assigned' = IF out.wrote /\ ~out.threw
                            THEN [assigned EXCEPT !["todos"] = @ \cup {out.value}]
                            ELSE assigned
             /\ expected' = IF out.wrote
                            THEN [expected EXCEPT !["todos"] = AfterInsert(@, BeAwesome, out)]
                            ELSE expected
             /\ clean' = [clean EXCEPT !["todos"] = @ /\ ~out.threw]
    /\ earlyOp' = (earlyOp \/ migRuns = 0)
    /\ partial' = NoPartial
    /\ UNCHANGED exceptCsv
    /\ UNCHANGED <<dataVersion, boots, calls, migRuns, queue, inflight>>

\* createWindow, createAppTray, initNotificationsAndReminders
StartupStep ==
    /\ proc = "up"
    /\ step < Len(ReadySteps)
    /\ ReadySteps[step + 1] \notin {"runDataMigrations", "initDb"}
    /\ step' = step + 1
    /\ UNCHANGED exceptCsv
    /\ UNCHANGED <<disk, dataVersion, proc, boots, calls, faults, last, assigned,
                   expected, clean, migRuns, earlyOp, partial, queue, inflight>>

\* the process exits or is killed
Quit ==
    /\ proc # "off"
    /\ proc' = "off"
    /\ queue' = {}
    /\ inflight' = {}
    /\ UNCHANGED exceptCsv
    /\ UNCHANGED <<disk, dataVersion, step, boots, calls, faults, last, assigned,
                   expected, clean, migRuns, earlyOp, partial>>

(***************************************************************************)
(* IPC handlers db:insert, db:update, db:remove.                           *)
(***************************************************************************)
\* the files a request for `table` works on
FilesOf(table) == IF table \in Tables THEN disk[table] ELSE NoFiles

\* the effect of one handler that read `rows` and finished with `out`
Handled(op, table, id, fault, rows, out, reply) ==
    /\ disk' = IF table \in Tables THEN [disk EXCEPT ![table] = out.fs] ELSE disk
    /\ faults' = faults + Fired(fault)
    /\ last' = [NoLast EXCEPT !.op = op, !.table = table, !.arg = id, !.fault = fault,
                              !.before = FilesOf(table), !.threw = out.threw,
                              !.wrote = out.wrote, !.restoreThrew = out.restoreThrew,
                              !.reply = reply,
                              !.miss = (\A i \in 1..Len(rows) : ~StrictEq(Get(rows[i], "id"), id)),
                              !.reused = (op = "insert" /\ ~out.threw /\ table \in Tables
                                          /\ out.value \in assigned[table]),
                              !.fresh = (rows = readCSV(FilesOf(table)))]
    /\ assigned' = IF op = "insert" /\ ~out.threw
                   THEN [assigned EXCEPT ![table] = @ \cup {out.value}]
                   ELSE assigned
    /\ clean' = [t \in Tables |-> clean[t] /\ ~(t = table /\ out.threw)]
    /\ earlyOp' = (earlyOp \/ migRuns = 0)
    /\ partial' = NoPartial
    /\ UNCHANGED exceptCsv
    /\ UNCHANGED <<dataVersion, proc, step, boots, migRuns>>

\* the rows the operations since startup imply, after this one
Implied(op, table, id, data, out) ==
    [t \in Tables |->
        IF t # table THEN expected[t]
        ELSE IF op = "insert" THEN AfterInsert(expected[t], InsertData(data), out)
        ELSE IF op = "update" THEN AfterUpdate(expected[t], id, data, out)
        ELSE AfterRemove(expected[t], id, out)]

\* the model stops inserting once the table holds MaxId rows
InsertAllowed(rows) == Len(rows) < MaxId

\* the failures a handler's write can meet
Faulty(faulty, table, rows, id) ==
    IF faulty /\ table \in Tables /\ (id = Undefined \/ FindIndex(rows, id) # 0)
    THEN FaultChoices(disk[table])
    ELSE {NoFault}

Insert(budget, faulty) ==
    /\ WindowOpen
    /\ calls < budget
    /\ \E table \in TableInputs : \E data \in InsertInputs :
         LET rows == readCSV(FilesOf(table))
         IN  /\ InsertAllowed(rows)
             /\ \E fault \in Faulty(faulty, table, rows, Undefined) :
                  LET out == insert(table, rows, FilesOf(table), data, fault)
                  IN  /\ Handled("insert", table, Undefined, fault, rows, out, dbInsertReply(out))
                      /\ expected' = Implied("insert", table, Undefined, data, out)
    /\ calls' = calls + 1
    /\ UNCHANGED <<queue, inflight>>

Update(budget, faulty) ==
    /\ WindowOpen
    /\ calls < budget
    /\ \E table \in TableInputs : \E id \in IdInputs : \E data \in UpdateInputs :
         LET rows == readCSV(FilesOf(table))
         IN  \E fault \in Faulty(faulty, table, rows, id) :
               LET out == update(table, rows, FilesOf(table), id, data, fault)
               IN  /\ Handled("update", table, id, fault, rows, out, dbUpdateReply(out))
                   /\ expected' = Implied("update", table, id, data, out)
    /\ calls' = calls + 1
    /\ UNCHANGED <<queue, inflight>>

Remove(budget, faulty) ==
    /\ WindowOpen
    /\ calls < budget
    /\ \E table \in TableInputs : \E id \in IdInputs :
         LET rows == readCSV(FilesOf(table))
         IN  \E fault \in Faulty(faulty, table, rows, id) :
               LET out == remove(table, rows, FilesOf(table), id, fault)
               IN  /\ Handled("remove", table, id, fault, rows, out, dbRemoveReply(out))
                   /\ expected' = Implied("remove", table, id, <<>>, out)
    /\ calls' = calls + 1
    /\ UNCHANGED <<queue, inflight>>

DbInsert == Insert(MaxCalls, TRUE)
DbUpdate == Update(MaxCalls, TRUE)
DbRemove == Remove(MaxCalls, TRUE)

\* the running application: handlers run one after another, writes may fail
Next ==
    \/ DbInsert
    \/ DbUpdate
    \/ DbRemove

Spec == Init /\ [][Next]_vars

BootInsert == Insert(MaxBootCalls, FALSE)
BootUpdate == Update(MaxBootCalls, FALSE)
BootRemove == Remove(MaxBootCalls, FALSE)

\* process starts, with failures in the migration and in initDb
NextBoot ==
    \/ Launch
    \/ RunDataMigrations
    \/ InitDb
    \/ StartupStep
    \/ Quit
    \/ BootInsert
    \/ BootUpdate
    \/ BootRemove

SpecBoot == InitBoot /\ [][NextBoot]_vars

(***************************************************************************)
(* The event loop.  Requests of concurrent callers are delivered in any    *)
(* order; a handler reads the table, computes and writes it.               *)
(***************************************************************************)
\* a handler that awaits between its read and its write
HandlerYields_Await == TRUE

\* whether a handler gives control back to the event loop between reading
\* the table and writing it: handlers and their fs calls are synchronous
HandlerYields == FALSE

Requests ==
    {[op |-> "insert", table |-> t, id |-> Undefined, data |-> d] :
        t \in Tables, d \in InsertInputs}
    \cup {[op |-> "update", table |-> t, id |-> i, data |-> d] :
            t \in Tables, i \in IdInputs, d \in UpdateInputs}
    \cup {[op |-> "remove", table |-> t, id |-> i, data |-> <<>>] :
            t \in Tables, i \in IdInputs}

\* callers that have no request waiting
FreeCallers == {c \in 1..MaxPending : \A q \in queue : q.from # c}

\* a caller (a click handler, a debounced autosave) sends a request
Deliver ==
    /\ WindowOpen
    /\ calls < MaxCalls
    /\ FreeCallers # {}
    /\ \E r \in Requests :
         queue' = queue \cup {[from |-> CHOOSE c \in FreeCallers : \A d \in FreeCallers : c <= d,
                               req |-> r]}
    /\ calls' = calls + 1
    /\ UNCHANGED exceptCsv
    /\ UNCHANGED <<disk, dataVersion, proc, step, boots, faults, last, assigned,
                   expected, clean, migRuns, earlyOp, partial, inflight>>

\* the event loop dispatches a request; the handler's first statement reads
Begin ==
    /\ inflight = {} \/ HandlerYields
    /\ \E q \in queue :
         LET rows == readCSV(FilesOf(q.req.table))
         IN  /\ queue' = queue \ {q}
             /\ inflight' = IF q.req.op = "insert" /\ ~InsertAllowed(rows) THEN inflight
                            ELSE inflight \cup {[from |-> q.from, req |-> q.req, rows |-> rows]}
    /\ UNCHANGED exceptCsv
    /\ UNCHANGED <<disk, dataVersion, proc, step, boots, calls, faults, last, assigned,
                   expected, clean, migRuns, earlyOp, partial>>

\* the handler computes from what it read, writes and answers
Complete ==
    /\ \E h \in inflight :
         LET r == h.req
             f == FilesOf(r.table)
             out == IF r.op = "insert" THEN insert(r.table, h.rows, f, r.data, NoFault)
                    ELSE IF r.op = "update" THEN update(r.table, h.rows, f, r.id, r.data, NoFault)
                    ELSE remove(r.table, h.rows, f, r.id, NoFault)
             reply == IF r.op = "insert" THEN dbInsertReply(out)
                      ELSE IF r.op = "update" THEN dbUpdateReply(out)
                      ELSE dbRemoveReply(out)
         IN  /\ Handled(r.op, r.table, r.id, NoFault, h.rows, out, reply)
             /\ expected' = Implied(r.op, r.table, r.id, r.data, out)
             /\ inflight' = inflight \ {h}
    /\ UNCHANGED <<calls, queue>>

NextLoop ==
    \/ Deliver
    \/ Begin
    \/ Complete

SpecLoop == Init /\ [][NextLoop]_vars

(***************************************************************************)
(* Properties of the running application (Spec).                           *)
(***************************************************************************)
\* the last handler's write was cut short at one of the two renames and
\* the restore in the catch block did not fail
LateFailure ==
    /\ last.op \in {"insert", "update", "remove"}
    /\ last.fault.at \in {"backup", "rename"}
    /\ ~last.restoreThrew

\* C1: after a write that fails at the rename of the primary file to the
\* backup path or at the rename of the temporary file into place, the
\* primary file holds what it held immediately before the write began.
C1_PrimaryKeptOnLateFailure ==
    LateFailure => FilesOf(last.table).file = last.before.file

\* the backup that exists when the failure of the last write is caught
BackupAtFailure ==
    IF last.fault.at = "rename" /\ last.before.file.exists THEN last.before.file
    ELSE last.before.bak

\* C2: when a step of a table write fails, the backup (if one exists) is
\* renamed back onto the primary path and the failure is re-raised: the
\* operation that triggered the write answers with a rejection or false,
\* never with an id or true, also when the restore itself fails.
C2_FailedWriteNeverSucceeds ==
    (last.op \in {"insert", "update", "remove"} /\ last.fault.at # "none") =>
        /\ last.threw
        /\ last.reply.rejected \/ last.reply.value = Bool(FALSE)
        /\ last.reply.value.t # "num" /\ last.reply.value # Bool(TRUE)
        /\ (BackupAtFailure.exists /\ ~last.restoreThrew) =>
               /\ FilesOf(last.table).file = BackupAtFailure
               /\ ~FilesOf(last.table).bak.exists
        /\ last.restoreThrew => last.fault.restore /\ BackupAtFailure.exists

\* an insert whose write failed and whose restore failed too was rejected
C2_Witness ==
    /\ last.op = "insert"
    /\ last.fault.at = "rename"
    /\ last.restoreThrew
    /\ last.reply.rejected

\* C3: in a table whose rows are well-formed and whose writes have all
\* succeeded, an identifier once assigned to a row is never assigned again
\* to a later inserted row, even after that row has been deleted.
C3_IdNeverReused ==
    \A t \in Tables : (clean[t] /\ last.table = t) => ~last.reused

\* C5: update and remove with an id that no row has answer false without
\* raising, perform no write and leave the table's files as they were.
C5_MissReturnsFalse ==
    (last.op \in {"update", "remove"} /\ last.miss) =>
        /\ ~last.reply.rejected
        /\ last.reply.value = Bool(FALSE)
        /\ ~last.threw
        /\ ~last.wrote
        /\ FilesOf(last.table) = last.before

\* a remove of an absent id on a table that holds rows
C5_Witness ==
    /\ last.op = "remove"
    /\ last.miss
    /\ last.table = "todos"
    /\ Len(readCSV(disk["todos"])) > 0

\* a row as it reads back: null and undefined fields are written as empty
\* cells
NullAsEmpty(row) ==
    [k \in DOMAIN row |-> IF row[k] \in {Null, Undefined} THEN Str("") ELSE row[k]]

C7_MalformedRowsSkipped ==
    /\ \A t \in Tables : \A r \in Range(readCSV(disk[t])) : Get(r, "id").t = "num"
    /\ (last.op = "insert" /\ ~last.reply.rejected) => last.reply.value.t = "num"

(***************************************************************************)
(* Properties of startup and the migration runner (SpecBoot).              *)
(***************************************************************************)
\* what migration v1 makes of the rows in the files f
Migrated(f) == FileOf(PapaUnparse(MigrateV1(readCSV(f))))

\* C8: the persisted data version is raised to 1 only by a run of the
\* migration whose transform and write succeeded; when the write fails,
\* setDataVersion fails or the process stops before it, the version keeps
\* its value; the runner raises nothing, so startup goes on with initDb; and
\* every start that finds the version below 1 attempts the migration.
C8_VersionAfterSuccess ==
    last.op = "migrate" =>
        /\ dataVersion # last.v0 =>
               /\ last.fault.at = "none"
               /\ last.ran
               /\ dataVersion = 1
               /\ disk["todos"].file = Migrated(last.before)
        /\ last.fault.at # "none" => dataVersion = last.v0
        /\ ~last.threw
        /\ proc # "aborted"
        /\ (proc = "up" /\ ~last.stopped) => NextReady("initDb")
        /\ last.ran <=> last.v0 < 1

\* a second start retried the migration after a failed first attempt, and
\* raised the version
C8_Witness ==
    /\ boots = 2
    /\ last.op = "migrate"
    /\ last.v0 = 0
    /\ last.ran
    /\ faults = 1
    /\ dataVersion = 1

\* the runner applied once, and applied again to the result of that
RunOnce(f, version) == runDataMigrations(f, version, NoFault)
RunTwice(f, version) ==
    runDataMigrations(RunOnce(f, version).fs, RunOnce(f, version).version, NoFault)

\* C9: running the migration runner twice in a row leaves the table and the
\* version as running it once does, and so does running it again after an
\* attempt that wrote the table and stopped before the version was persisted.
C9_MigrationIdempotent ==
    /\ RunTwice(disk["todos"], dataVersion).fs.file = RunOnce(disk["todos"], dataVersion).fs.file
    /\ RunTwice(disk["todos"], dataVersion).version = RunOnce(disk["todos"], dataVersion).version
    /\ (last.op = "migrate" /\ last.v0 >= 1) =>
           /\ disk["todos"] = last.before
           /\ dataVersion = last.v0
    /\ (last.op = "migrate" /\ last.prior.is /\ last.fault.at = "none") =>
           /\ disk["todos"].file.csv = last.prior.csv
           /\ dataVersion = 1

\* the migration ran again, on a table that holds rows, after an attempt
\* that had written the table and stopped before the version was persisted
C9_Witness ==
    /\ last.op = "migrate"
    /\ last.prior.is
    /\ last.fault.at = "none"
    /\ Len(last.prior.csv.lines) > 0
    /\ boots = 2

\* C10: no table operation of initDb or of an IPC handler is executed
\* before runDataMigrations has returned, and the runner executes at most
\* once per process start.
C10_MigrationFirst ==
    /\ ~earlyOp
    /\ migRuns <= 1
    /\ (proc = "up" /\ step >= 2) => migRuns = 1
    /\ last.op \in {"initDb", "insert", "update", "remove"} => migRuns = 1

\* an IPC handler has worked on the table in the second run of the process
C10_Witness ==
    /\ boots = 2
    /\ WindowOpen
    /\ last.op \in {"insert", "update", "remove"}
    /\ last.table = "todos"
    /\ migRuns = 1

(***************************************************************************)
(* Properties of the event loop (SpecLoop).                                *)
(***************************************************************************)
\* the rows of a table carry pairwise different ids
DistinctIds(rows) ==
    \A i, j \in 1..Len(rows) : Get(rows[i], "id") = Get(rows[j], "id") => i = j

Clock == Str(ToString(calls + 1))

\* the effect of one timer handler that finished with `out`
TimerHandled(op, key, minutes, out) ==
    /\ calls < MaxTimerCalls
    /\ timerDisk' = out.td
    /\ timerLast' = [op |-> op, key |-> key, minutes |-> minutes,
                     before |-> timerReadCSV(timerDisk.timer_data),
                     hiddenBefore |-> timerReadCSV(timerDisk.hidden_subjects),
                     threw |-> out.threw, value |-> out.value]
    /\ calls' = calls + 1
    /\ UNCHANGED <<faults, exceptTimer>>

TimerAddOrUpdate ==
    \E s \in SubjectInputs : \E d \in DateInputs : \E m \in DeltaInputs :
        LET out == addOrUpdateTimerData(timerDisk, s.raw, d.arg, Num(m), Clock, NoFault)
            k == <<s.key, d.key>>
        IN  /\ TimerHandled("addOrUpdate", k, m, out)
            /\ timerSums' =
                 IF out.threw THEN timerSums
                 ELSE [timerSums EXCEPT
                          ![k] = [has |-> TRUE, sum |-> (IF @.has THEN @.sum ELSE 0) + m]]
            /\ UNCHANGED timerHid

TimerHide ==
    \E s \in SubjectInputs :
        LET out == hideSubject(timerDisk, s.raw, Clock, NoFault)
        IN  /\ TimerHandled("hide", <<s.key>>, 0, out)
            /\ timerHid' = IF out.value = Bool(TRUE)
                           THEN [kept |-> timerHid.kept \cup {s.key},
                                 live |-> timerHid.live \cup {s.key}]
                           ELSE timerHid
            /\ UNCHANGED timerSums

TimerUnhide ==
    \E s \in SubjectInputs :
        /\ TimerHandled("unhide", <<s.key>>, 0, unhideSubject(timerDisk, s.raw, NoFault))
        /\ timerHid' = [kept |-> timerHid.kept \ {s.key}, live |-> timerHid.live \ {s.key}]
        /\ UNCHANGED timerSums

\* the date ranges a caller passes: each bound a date, or none
RangeInputs ==
    {<<Undefined, Undefined>>, <<Str("d2"), Undefined>>, <<Undefined, Str("d1")>>,
     <<Str("d2"), Str("d2")>>, <<Str("d1"), Str("d2")>>}

\* the IPC handler timerDb:getSubjectTotalsByDateRange
TimerSubjectTotals ==
    \E range \in RangeInputs :
        /\ TimerHandled("getSubjectTotalsByDateRange", range, 0,
                        TimerOut(timerDisk, FALSE,
                                 getSubjectTotalsByDateRange(timerDisk, range[1], range[2])))
        /\ UNCHANGED <<timerSums, timerHid>>

\* the IPC handler timerDb:getDailyAggregatedData
TimerDailyAggregated ==
    \E range \in RangeInputs :
        /\ TimerHandled("getDailyAggregatedData", range, 0,
                        TimerOut(timerDisk, FALSE,
                                 getDailyAggregatedData(timerDisk, range[1], range[2])))
        /\ UNCHANGED <<timerSums, timerHid>>

\* the IPC handler timerDb:getSubjectDateAggregatedData
TimerSubjectDateAggregated ==
    \E range \in RangeInputs :
        /\ TimerHandled("getSubjectDateAggregatedData", range, 0,
                        TimerOut(timerDisk, FALSE,
                                 getSubjectDateAggregatedData(timerDisk, range[1], range[2])))
        /\ UNCHANGED <<timerSums, timerHid>>

\* the IPC handler timerDb:getAllSubjects
TimerGetAllSubjects ==
    /\ TimerHandled("getAllSubjects", <<>>, 0,
                    TimerOut(timerDisk, FALSE, getAllSubjects(timerDisk)))
    /\ UNCHANGED <<timerSums, timerHid>>

TimerDelete ==
    \E s \in SubjectInputs :
        LET out == deleteSubjectCompletely(timerDisk, s.raw, NoFault)
        IN  /\ TimerHandled("delete", <<s.key>>, 0, out)
            /\ timerSums' =
                 IF out.threw \/ out.value # Bool(TRUE) THEN timerSums
                 ELSE [k \in TimerKeys |->
                          IF k[1] = s.key THEN [has |-> FALSE, sum |-> 0] ELSE timerSums[k]]
            /\ timerHid' = [timerHid EXCEPT !.live = @ \ {s.key}]

NextTimer ==
    \/ TimerAddOrUpdate
    \/ TimerHide
    \/ TimerUnhide
    \/ TimerDelete
    \/ TimerGetAllSubjects
    \/ TimerSubjectTotals
    \/ TimerDailyAggregated
    \/ TimerSubjectDateAggregated

\* the running application with an empty timer database
InitTimer ==
    /\ InitOn(Started(InstallWith(Absent, 0)))
    /\ proc = "up"
    /\ step = Len(ReadySteps)
    /\ boots = 1
    /\ migRuns = 1

SpecTimer == InitTimer /\ [][NextTimer]_vars

(***************************************************************************)
(* Properties of the timer database (SpecTimer).                           *)
(***************************************************************************)
\* the entries of timer_data.csv as loaded
TimerEntries == timerReadCSV(timerDisk.timer_data)

\* the (trimmed and lowercased subject, date) an entry stands for
EntryKey(entry) == <<toLowerCase(trim(Get(entry, "subject").v)), Get(entry, "date").v>>

\* C11: after any sequence of addOrUpdateTimerData, hideSubject,
\* unhideSubject and deleteSubjectCompletely calls, timer_data.csv holds at
\* most one entry for each (trimmed and lowercased subject, date).
C11_OneEntryPerSubjectDate ==
    \A i, j \in 1..Len(TimerEntries) :
        EntryKey(TimerEntries[i]) = EntryKey(TimerEntries[j]) => i = j

\* the same subject was given in two spellings and for two dates: two
\* entries, both of subject "m"
C11_Witness ==
    /\ timerLast.op = "addOrUpdate"
    /\ Len(TimerEntries) = 2
    /\ \A i \in 1..2 : EntryKey(TimerEntries[i])[1] = <<"m">>
    /\ timerSums[<<<<"m">>, Today>>].sum = 1

\* C12: addOrUpdateTimerData adds the minutes to the entry of the
\* (normalised subject, date) or creates it with those minutes, and leaves
\* every other entry as it was; so each entry's total is the sum of the
\* minutes supplied for its key since it was created.
C12_TotalIsSumOfDeltas ==
    /\ \A k \in TimerKeys :
         timerSums[k].has <=>
            \E i \in 1..Len(TimerEntries) : EntryKey(TimerEntries[i]) = k
    /\ \A i \in 1..Len(TimerEntries) :
         /\ EntryKey(TimerEntries[i]) \in TimerKeys
         /\ Get(TimerEntries[i], "total_minutes") = Num(timerSums[EntryKey(TimerEntries[i])].sum)
    /\ (timerLast.op = "addOrUpdate" /\ ~timerLast.threw) =>
         /\ EntryKey(timerLast.value) = timerLast.key
         /\ timerLast.value \in Range(TimerEntries)
         /\ \A e \in Range(timerLast.before) :
               EntryKey(e) # timerLast.key => e \in Range(TimerEntries)
         /\ \A e \in Range(TimerEntries) :
               EntryKey(e) # timerLast.key => e \in Range(timerLast.before)

\* "M" with 2 minutes and " m " with 2 minutes on the same day: one entry
\* with 4
C12_Witness ==
    /\ timerLast.op = "addOrUpdate"
    /\ timerLast.key = <<<<"m">>, Today>>
    /\ \E e \in Range(timerLast.before) : EntryKey(e) = timerLast.key
    /\ \E e \in Range(timerLast.before) : EntryKey(e) # timerLast.key
    /\ Get(timerLast.value, "total_minutes") = Num(4)

\* C13: every entry has total_minutes >= 0, whatever minutes callers pass.
C13_TotalNeverNegative ==
    \A e \in Range(TimerEntries) :
        Get(e, "total_minutes").t = "num" /\ Get(e, "total_minutes").v >= 0

(***************************************************************************)
(* The session store behind its IPC handlers.                              *)
(***************************************************************************)
\* subject names a renderer passes: padded, blank and missing
StoreSubjects == {Str(<<" ", "M">>), Str(<<" ">>), Undefined}

\* subject names passed to the handlers that take a row or a total
TotalSubjects == {Str(<<" ", "M">>), Str(<<" ">>)}

\* (durationMinutes, pausedSeconds) a renderer passes to a completion, in
\* halves: 1.5 minutes with 125 seconds paused, -1 minute with none
CompletionInputs == {<<Num(3), Num(250)>>, <<Num(0 - 2), Num(0)>>}

\* (activeSeconds, pausedSeconds) a renderer passes as progress, in halves
ProgressInputs == {<<Num(250), Num(250)>>, <<Num(0), Num(0)>>}

\* the ids of the sessions in the store and one id that is not there
SessionIds == 1..(Len(store.sessions) + 1)

\* the payloads of sessions:saveProgress
ProgressPayloads ==
    {[sessionId |-> Num(id), activeSeconds |-> Num(250), pausedSeconds |-> Num(250),
      breakSeconds |-> IF pp THEN Num(250) ELSE Num(0), persistPause |-> Bool(pp)] :
        id \in SessionIds, pp \in BOOLEAN}
    \cup {[breakSeconds |-> Num(250)]}

\* the rows passed to store:addDailyStat
StatInputs ==
    {[date |-> Str("d2"), subject |-> s, timeInSubject |-> Num(3)] : s \in TotalSubjects}

\* a store handler ran: its outcome becomes the store and is recorded
StoreHandled(op, id, args, out, rejected, value, applied, purged) ==
    /\ calls < MaxStoreCalls
    /\ store' = out.st
    /\ storeLast' = [op |-> op, id |-> id, args |-> args, before |-> store,
                     threw |-> out.threw, rejected |-> rejected, value |-> value]
    /\ storeApplied' = applied
    /\ storePurged' = purged
    /\ calls' = calls + 1
    /\ UNCHANGED <<now, faults, exceptStore>>

\* ipcMain.handle("sessions:start"): timer.ts startSession, errors rethrown
SessionsStart ==
    \E name \in StoreSubjects :
        LET out == startSession(store, name, now)
        IN  StoreHandled("start", 0, <<name>>, out, out.threw, out.value,
                         storeApplied, storePurged)

\* ipcMain.handle("store:startSession")
StoreStartSession ==
    \E name \in StoreSubjects :
        LET out == startSessionInStore(store, name, now)
        IN  StoreHandled("start", 0, <<name>>, out, out.threw, out.value,
                         storeApplied, storePurged)

\* ipcMain.handle("sessions:complete"): true, or false when completion threw
SessionsComplete ==
    \E id \in SessionIds, c \in CompletionInputs :
        LET out == completeSessionInStore(store, id, c[1], c[2], now)
        IN  StoreHandled("complete", id, c, out, FALSE, Bool(~out.threw),
                         storeApplied, storePurged)

\* ipcMain.handle("store:completeSession"): errors rethrown
StoreCompleteSession ==
    \E id \in SessionIds, c \in CompletionInputs :
        LET out == completeSessionInStore(store, id, c[1], c[2], now)
        IN  StoreHandled("complete", id, c, out, out.threw, out.value,
                         storeApplied, storePurged)

\* ipcMain.handle("sessions:updateProgress")
SessionsUpdateProgress ==
    \E id \in SessionIds, c \in ProgressInputs :
        LET out == updateSessionProgress(store, id, c[1], c[2])
        IN  StoreHandled("progress", id, c, out, FALSE, Bool(TRUE),
                         storeApplied, storePurged)

\* ipcMain.handle("sessions:saveProgress")
SessionsSaveProgress ==
    \E payload \in ProgressPayloads :
        LET out == saveProgress(store, payload, now)
            id == IF "sessionId" \in DOMAIN payload THEN payload.sessionId.v ELSE 0
        IN  StoreHandled("saveProgress", id, <<payload>>, out, FALSE, Bool(TRUE),
                         storeApplied, storePurged)

\* ipcMain.handle("store:addDailyStat"): errors rethrown
StoreAddDailyStat ==
    \E stat \in StatInputs :
        LET out == addDailyStat(store, stat)
        IN  StoreHandled("addDailyStat", 0, <<stat>>, out, out.threw, out.value,
                         TotalsPlus(storeApplied,
                                    <<stat.date.v, SubjectKeyOf(stat.subject)>>,
                                    SafeMinutes(stat.timeInSubject)),
                         storePurged)

\* ipcMain.handle("store:incrementSubjectTotal"): errors rethrown
StoreIncrementSubjectTotal ==
    \E name \in TotalSubjects :
        LET out == incrementSubjectTotal(store, name, Num(3))
        IN  StoreHandled("incrementSubjectTotal", 0, <<name>>, out, out.threw,
                         out.value, storeApplied, storePurged)

\* ipcMain.handle("store:removeSubjectTotal")
StoreRemoveSubjectTotal ==
    \E name \in TotalSubjects :
        LET out == removeSubjectFromStore(store, name)
        IN  StoreHandled("removeSubject", 0, <<name>>, out, out.threw, out.value,
                         storeApplied, storePurged \/ out.value = Bool(TRUE))

\* time passes; two ticks make a local calendar day
Tick ==
    /\ now < MaxNow
    /\ now' = now + 1
    /\ UNCHANGED <<store, storeLast, storeApplied, storePurged, calls, faults, exceptStore>>

NextStore ==
    \/ SessionsStart
    \/ StoreStartSession
    \/ SessionsComplete
    \/ StoreCompleteSession
    \/ SessionsUpdateProgress
    \/ SessionsSaveProgress
    \/ StoreAddDailyStat
    \/ StoreIncrementSubjectTotal
    \/ StoreRemoveSubjectTotal
    \/ Tick

SpecStore == InitTimer /\ [][NextStore]_vars

(***************************************************************************)
(* Properties of the session store.                                        *)
(***************************************************************************)
RECURSIVE SumSeq(_)
SumSeq(ns) == IF ns = <<>> THEN 0 ELSE Head(ns) + SumSeq(Tail(ns))

\* the local days and the non-blank subject keys the store can hold
StoreDates == {localDateString(t) : t \in 0..MaxNow}
StoreKeys == {<<"m">>, General, BreakSubject, PauseSubject}

\* timeInSubject of the daily stats of a date and subject
StatTime(st, date, key) ==
    SumSeq([i \in 1..Len(st.dailyStats) |->
               IF st.dailyStats[i].date = Str(date) /\ st.dailyStats[i].subject = key
               THEN st.dailyStats[i].timeInSubject ELSE 0])

\* whether completion has set the record's endTime
Completed(session) == session.endTime # Undefined

\* durationMinutes recorded on the completed sessions of a start day and subject
SessionTime(st, date, key) ==
    SumSeq([i \in 1..Len(st.sessions) |->
               IF /\ Completed(st.sessions[i])
                  /\ localDateString(st.sessions[i].startTime) = date
                  /\ toLowerCase(trim(st.sessions[i].subjectName)) = key
               THEN st.sessions[i].durationMinutes.v ELSE 0])

\* timeInSubject applied for a date and subject outside session completion
AppliedTime(date, key) ==
    IF <<date, key>> \in DOMAIN storeApplied THEN storeApplied[<<date, key>>] ELSE 0

\* C14: as long as no subject has been removed, timeInSubject of every date
\* and named subject is the sum of the durations recorded on the completed
\* sessions of that start day and subject plus the increments applied for it
C14_TimeIsSessionsPlusIncrements ==
    ~storePurged =>
        \A date \in StoreDates, key \in StoreKeys :
            StatTime(store, date, key) = SessionTime(store, date, key) + AppliedTime(date, key)

\* subjectTotals[key].totalTime, 0 when the subject has no total
TotalOf(st, key) == IF key \in DOMAIN st.subjectTotals THEN st.subjectTotals[key] ELSE 0

\* timeInSubject summed over the daily stats of a subject
SubjectStatTime(st, key) ==
    SumSeq([i \in 1..Len(st.dailyStats) |->
               IF st.dailyStats[i].subject = key THEN st.dailyStats[i].timeInSubject ELSE 0])

\* C15: the total of every subject is the sum of timeInSubject over the
\* daily stats of that subject
C15_TotalsMatchDailyStats ==
    \A key \in StoreKeys : TotalOf(store, key) = SubjectStatTime(store, key)

\* the most recent operation completed a session that was in the store
CompletedExisting ==
    storeLast.op = "complete" /\ SessionIndex(storeLast.before.sessions, storeLast.id) # 0

\* the record the most recent operation was about, before and after it
RecordBefore == storeLast.before.sessions[SessionIndex(storeLast.before.sessions, storeLast.id)]
RecordAfter == store.sessions[SessionIndex(store.sessions, storeLast.id)]

\* whether the daily stats hold a row of a date and subject
HasBucket(st, date, key) ==
    \E i \in 1..Len(st.dailyStats) :
        st.dailyStats[i].date = Str(date) /\ st.dailyStats[i].subject = key

\* C16: completing an existing session sets its endTime and adds the floored,
\* non-negative duration to the bucket of the session's start day and
\* normalised subject, which exists afterwards; no other bucket changes
C16_CompletionFoldsIntoStartDay ==
    CompletedExisting =>
        LET day == localDateString(RecordBefore.startTime)
            subject == toLowerCase(trim(RecordBefore.subjectName))
        IN  /\ Completed(RecordAfter)
            /\ HasBucket(store, day, subject)
            /\ \A date \in StoreDates, key \in StoreKeys \cup {<<>>} :
                   StatTime(store, date, key) =
                       StatTime(storeLast.before, date, key)
                       + (IF date = day /\ key = subject
                          THEN SafeMinutes(storeLast.args[1]) ELSE 0)

\* the most recent operation was aimed at a session that was already completed
OnCompleted ==
    /\ storeLast.op \in {"complete", "progress", "saveProgress"}
    /\ SessionIndex(storeLast.before.sessions, storeLast.id) # 0
    /\ Completed(RecordBefore)

\* C17: completed is terminal: a completion or progress update aimed at a
\* completed session leaves its endTime, durationMinutes and pausedSeconds
\* as they were and adds nothing to the session's daily stat
C17_CompletedIsTerminal ==
    OnCompleted =>
        /\ RecordAfter = RecordBefore
        /\ LET day == localDateString(RecordBefore.startTime)
               subject == toLowerCase(trim(RecordBefore.subjectName))
           IN  StatTime(store, day, subject) = StatTime(storeLast.before, day, subject)

\* the most recent operation completed a session id that was not in the store
CompletedMissing ==
    storeLast.op = "complete" /\ SessionIndex(storeLast.before.sessions, storeLast.id) = 0

\* C18: completing a session id that does not exist raises no exception, in
\* the store function and at either IPC entry point, and leaves the store
\* unchanged
C18_MissingSessionNotRaised ==
    CompletedMissing =>
        /\ ~storeLast.threw
        /\ ~storeLast.rejected
        /\ store = storeLast.before

\* breakMinutes and pauseMinutes of every daily stat are what they were
\* before the most recent operation, and both are 0 in the rows it created
BreakAndPauseKept ==
    /\ Len(store.dailyStats) >= Len(storeLast.before.dailyStats)
    /\ \A i \in 1..Len(store.dailyStats) :
           IF i <= Len(storeLast.before.dailyStats)
           THEN /\ store.dailyStats[i].breakMinutes = storeLast.before.dailyStats[i].breakMinutes
                /\ store.dailyStats[i].pauseMinutes = storeLast.before.dailyStats[i].pauseMinutes
           ELSE /\ store.dailyStats[i].breakMinutes = 0
                /\ store.dailyStats[i].pauseMinutes = 0

\* the most recent operation was sessions:saveProgress with a break or a
\* pause to book
BooksBreakOrPause ==
    /\ storeLast.op = "saveProgress"
    /\ \/ Get(storeLast.args[1], "breakSeconds") # Num(0)
       \/ Get(storeLast.args[1], "persistPause") = Bool(TRUE)

\* C19: a completion or a progress update, whatever pausedSeconds it is
\* given, changes breakMinutes and pauseMinutes of no daily stat and creates
\* rows with both 0; the two fields change only when sessions:saveProgress
\* books a break or a pause
C19_BreakAndPauseOnlyByIncrement ==
    (storeLast.op \notin {"none", "removeSubject"} /\ ~BooksBreakOrPause) => BreakAndPauseKept

\* a session with paused time was completed, creating its bucket, while
\* another bucket holds break minutes
C19_Witness ==
    /\ CompletedExisting
    /\ ~storeLast.threw
    /\ SafeMinutes(storeLast.args[2]) > 0
    /\ Len(store.dailyStats) > Len(storeLast.before.dailyStats)
    /\ \E i \in 1..Len(storeLast.before.dailyStats) :
           storeLast.before.dailyStats[i].breakMinutes > 0

(***************************************************************************)
(* The reminder checker and the reminder IPC handlers.                     *)
(***************************************************************************)
\* a reminders.json written by hand or by an earlier version: a timestamp
\* kept as text, one that cannot be read, and a numeric one
LegacyReminders ==
    << [id |-> "x", title |-> "t", body |-> Undefined, timestamp |-> Str("1")],
       [id |-> "y", title |-> "t", body |-> Undefined, timestamp |-> Str("soon")],
       [id |-> "w", title |-> "t", body |-> Undefined, timestamp |-> Null],
       [id |-> "z", title |-> "t", body |-> Str("b"), timestamp |-> Num(3)] >>

ReminderInstalls == {<<>>, LegacyReminders}

\* the reminders a renderer passes to reminder:add, the title telling the
\* calls apart
ReminderInputs ==
    {[id |-> i, title |-> ToString(calls + 1), body |-> Str(""), timestamp |-> ts] :
        i \in {"a", "b"}, ts \in {Num(1), Str("2"), Num(3)}}
    \cup {[id |-> "b", title |-> ToString(calls + 1), body |-> Str(""), timestamp |-> ts] :
              ts \in {Str("soon"), Null, Undefined, NaN}}

\* a reminder operation ran to the point of its write, which failed at the
\* given step or did not fail ("none"): the disk afterwards and the record
ReminderRan(op, arg, out, added, at) ==
    LET saved == IF out.wrote THEN saveRemindersAt(remFile, remBak, out.file, at)
                 ELSE [file |-> remFile, bak |-> remBak, threw |-> out.threw]
    IN  /\ remFile' = saved.file
        /\ remBak' = saved.bak
        /\ remLast' = [op |-> op, arg |-> arg, before |-> remFile, time |-> now,
                       fired |-> out.fired, wrote |-> out.wrote /\ ~saved.threw,
                       threw |-> saved.threw]
        /\ remShown' = [seen |-> (remShown.seen \ added) \cup Range(out.fired),
                        again |-> \E r \in Range(out.fired) : r \in remShown.seen]
        /\ UNCHANGED <<now, exceptReminders>>

\* a reminder IPC handler or a tick of the checker, taken as one step
ReminderStep(op, arg, out, added, at) ==
    /\ ReminderRan(op, arg, out, added, at)
    /\ UNCHANGED checker

\* a reminder operation ran and its write, if any, succeeded
ReminderHandled(op, out) ==
    /\ ReminderStep(op, Undefined, out, {}, "none")
    /\ UNCHANGED faults

\* setInterval(check, REMINDER_CHECK_INTERVAL_MS) fired
Check ==
    /\ ReminderHandled("check", check(remFile, now))
    /\ UNCHANGED calls

\* ipcMain.handle("reminder:add")
ReminderAdd ==
    \E rem \in ReminderInputs :
        /\ calls < MaxReminderCalls
        /\ ReminderStep("add", rem, reminderAdd(remFile, rem), {AsReminder(rem)}, "none")
        /\ calls' = calls + 1
        /\ UNCHANGED faults

\* ipcMain.handle("reminder:list")
ReminderList ==
    /\ calls < MaxReminderCalls
    /\ remLast' = [op |-> "list", arg |-> Undefined, before |-> remFile, time |-> now, fired |-> <<>>,
                   wrote |-> FALSE, threw |-> FALSE, value |-> loadReminders(remFile)]
    /\ calls' = calls + 1
    /\ UNCHANGED <<remFile, remBak, remShown, checker, now, faults, exceptReminders>>

\* ipcMain.handle("reminder:remove")
ReminderRemove ==
    \E id \in {"a", "x"} :
        /\ calls < MaxReminderCalls
        /\ ReminderHandled("remove", reminderRemove(remFile, id))
        /\ calls' = calls + 1

\* time passes between two ticks of the checker
ClockAdvances ==
    /\ now < MaxNow
    /\ now' = now + 1
    /\ UNCHANGED <<remVars, checker, calls, faults, exceptReminders>>

NextReminders ==
    \/ Check
    \/ ReminderAdd
    \/ ReminderList
    \/ ReminderRemove
    \/ ClockAdvances

\* the running application with the reminders.json of its installation
InitReminders ==
    /\ \E file \in ReminderInstalls :
           LET inst == Started(InstallWith(Absent, 0))
           IN  InitOn([disk |-> inst.disk, dataVersion |-> inst.dataVersion,
                       reminders |-> file])
    /\ proc = "up"
    /\ step = Len(ReadySteps)
    /\ boots = 1
    /\ migRuns = 1

SpecReminders == InitReminders /\ [][NextReminders]_vars

\* a tick whose saveReminders fails after the notifications were shown
CheckFails ==
    \E at \in ReminderFaultPoints :
        /\ faults < MaxFaults
        /\ check(remFile, now).wrote
        /\ ReminderStep("check", Undefined, check(remFile, now), {}, at)
        /\ faults' = faults + 1
        /\ UNCHANGED calls

\* reminder:add whose saveReminders fails
ReminderAddFails ==
    \E rem \in ReminderInputs, at \in ReminderFaultPoints :
        /\ faults < MaxFaults
        /\ calls < MaxReminderCalls
        /\ reminderAdd(remFile, rem).wrote
        /\ ReminderStep("add", rem, reminderAdd(remFile, rem), {}, at)
        /\ faults' = faults + 1
        /\ calls' = calls + 1

\* reminder:remove whose saveReminders fails
ReminderRemoveFails ==
    \E id \in {"a", "x"}, at \in ReminderFaultPoints :
        /\ faults < MaxFaults
        /\ calls < MaxReminderCalls
        /\ ReminderStep("remove", Undefined, reminderRemove(remFile, id), {}, at)
        /\ faults' = faults + 1
        /\ calls' = calls + 1

NextRemindersFaulty ==
    \/ NextReminders
    \/ CheckFails
    \/ ReminderAddFails
    \/ ReminderRemoveFails

\* the reminders on a disk whose writes can fail
SpecRemindersFaulty == InitReminders /\ [][NextRemindersFaulty]_vars

(***************************************************************************)
(* Properties of the reminder checker (SpecReminders).                     *)
(***************************************************************************)
\* the reminders the most recent operation loaded, and those of them that
\* were due at its time
LoadedBefore == loadReminders(remLast.before)
DueBefore == SelectSeq(LoadedBefore, LAMBDA r : r.timestamp.v <= remLast.time)
NotDueBefore == SelectSeq(LoadedBefore, LAMBDA r : r.timestamp.v > remLast.time)

\* C20: a tick shows, in the loaded order, exactly the loaded reminders whose
\* timestamp is at most the time read at its start; when some reminder was
\* due the file afterwards holds exactly the loaded reminders with a later
\* timestamp, unchanged, and when none was due the tick writes nothing
C20_TickFiresDueKeepsRest ==
    remLast.op = "check" =>
        /\ remLast.fired = DueBefore
        /\ DueBefore # <<>> => remLast.wrote /\ remFile = NotDueBefore
        /\ DueBefore = <<>> => ~remLast.wrote /\ remFile = remLast.before

\* a tick fired a reminder whose timestamp is exactly now and another read
\* from text, and kept a later one
C20_Witness ==
    /\ remLast.op = "check"
    /\ remLast.wrote
    /\ remFile # <<>>
    /\ \E i \in 1..Len(remLast.fired) : remLast.fired[i].timestamp.v = remLast.time
    /\ \E i \in 1..Len(remLast.before) : remLast.before[i].timestamp.t = "str"

\* C21: no tick shows a reminder that an earlier tick has shown, unless it
\* was added again in between
C21_FiredOnce == ~remShown.again

\* the position of a reminder among the calls of reminder:add, 0 for a
\* reminder that was in the file of the installation
AddedAt(r) == IF r.title = "t" THEN 0 ELSE Number(r.title).v

\* C22: a tick shows the due reminders in ascending order of timestamp, and
\* those of equal timestamp in the order of their reminder:add calls
C22_FiredInOrder ==
    remLast.op = "check" =>
        \A i, j \in 1..Len(remLast.fired) :
            i < j =>
                /\ remLast.fired[i].timestamp.v <= remLast.fired[j].timestamp.v
                /\ (/\ remLast.fired[i].timestamp = remLast.fired[j].timestamp
                    /\ AddedAt(remLast.fired[i]) > 0
                    /\ AddedAt(remLast.fired[j]) > 0)
                   => AddedAt(remLast.fired[i]) < AddedAt(remLast.fired[j])

\* a tick showed two added reminders of one timestamp and, after them, a
\* reminder of a later timestamp that was added before them
C22_Witness ==
    /\ remLast.op = "check"
    /\ \E i, j, k \in 1..Len(remLast.fired) :
           /\ i < j /\ j < k
           /\ remLast.fired[i].timestamp = remLast.fired[j].timestamp
           /\ AddedAt(remLast.fired[i]) > 0
           /\ AddedAt(remLast.fired[k]) > 0
           /\ AddedAt(remLast.fired[k]) < AddedAt(remLast.fired[i])

\* a stored timestamp that is an epoch value: a number, or text of digits
Readable(entry) ==
    \/ entry.timestamp.t = "num"
    \/ /\ entry.timestamp.t = "str"
       /\ entry.timestamp.v # ""
       /\ Number(entry.timestamp.v).t = "num"
       /\ Number(entry.timestamp.v).v >= 0

\* the epoch value of a readable stored timestamp
EpochOf(entry) ==
    IF entry.timestamp.t = "num" THEN entry.timestamp.v ELSE Number(entry.timestamp.v).v

\* the stored entries the most recent operation found in the file
StoredBefore == {i \in 1..Len(remLast.before) : TRUE}

\* C23: a stored reminder whose timestamp is no epoch value is shown by no
\* tick and returned by no reminder:list, while the tick shows every due
\* reminder, and the list returns every reminder, whose timestamp is one
C23_UnreadableDropped ==
    /\ remLast.op = "check" =>
           /\ \A i \in StoredBefore : ~Readable(remLast.before[i]) =>
                  \A k \in 1..Len(remLast.fired) : remLast.fired[k].id # remLast.before[i].id
           /\ Len(remLast.fired) =
                  Cardinality({i \in StoredBefore : /\ Readable(remLast.before[i])
                                                    /\ EpochOf(remLast.before[i]) <= remLast.time})
    /\ remLast.op = "list" =>
           /\ \A i \in StoredBefore : ~Readable(remLast.before[i]) =>
                  \A k \in 1..Len(remLast.value) : remLast.value[k].id # remLast.before[i].id
           /\ Len(remLast.value) = Cardinality({i \in StoredBefore : Readable(remLast.before[i])})

\* a tick showed a reminder out of a file holding an entry whose timestamp
\* is null and one whose timestamp is unreadable text
C23_Witness ==
    /\ remLast.op = "check"
    /\ remLast.fired # <<>>
    /\ \E i, j \in StoredBefore : /\ remLast.before[i].timestamp = Null
                                   /\ remLast.before[j].timestamp.t = "str"
                                   /\ ~Readable(remLast.before[j])

\* C24: reminder:add with a timestamp that is no epoch value throws and
\* leaves reminders.json and its backup as they were
C24_BadTimestampRejected ==
    (remLast.op = "add" /\ ~Readable(remLast.arg)) =>
        /\ remLast.threw
        /\ ~remLast.wrote
        /\ remFile = remLast.before

\* reminder:add was called with a non-finite number as timestamp on a file
\* that holds reminders
C24_Witness ==
    /\ remLast.op = "add"
    /\ remLast.arg.timestamp = NaN
    /\ remLast.threw
    /\ remFile # <<>>

\* C25: no session record, daily stat or subject total has a subject that
\* is empty after trimming
C25_NoEmptySubject ==
    /\ \A i \in 1..Len(store.sessions) : trim(store.sessions[i].subjectName) # <<>>
    /\ \A i \in 1..Len(store.dailyStats) : store.dailyStats[i].subject # <<>>
    /\ <<>> \notin DOMAIN store.subjectTotals

(***************************************************************************)
(* The life of the reminder checker: startReminderChecker, the ticks of    *)
(* its interval timer, shutdownNotificationsAndReminders on before-quit.   *)
(***************************************************************************)
\* whether the event loop can run another callback: no tick is running, or
\* the running tick has handed control back
LoopFree == checker.running = <<>> \/ CheckYields

\* a tick starts: Date.now() and loadReminders
TickBegins(c) ==
    [c EXCEPT !.running = Append(@, [file |-> remFile, time |-> now]),
              !.ticked = TRUE, !.late = @ \/ c.quit]

\* a running tick shows the due reminders and saves the rest
TickEnds ==
    /\ checker.running # <<>>
    /\ ReminderRan("check", Undefined,
                   check(Head(checker.running).file, Head(checker.running).time), {}, "none")
    /\ checker' = [checker EXCEPT !.running = Tail(@)]
    /\ UNCHANGED <<calls, faults>>

\* initNotificationsAndReminders: startReminderChecker, whose first tick
\* starts at once when it does not return early
InitNotifications ==
    /\ checker.starts < MaxStarts
    /\ ~checker.quit
    /\ LoopFree
    /\ LET started == [startReminderChecker(checker) EXCEPT !.starts = @ + 1]
       IN  checker' = IF started.made # checker.made THEN TickBegins(started) ELSE started
    /\ UNCHANGED <<remVars, now, calls, faults, exceptReminders>>

\* a live interval timer fires
IntervalFires ==
    /\ checker.timers # {}
    /\ LoopFree
    /\ Len(checker.running) < Cardinality(checker.timers) + 1
    /\ checker' = TickBegins(checker)
    /\ UNCHANGED <<remVars, now, calls, faults, exceptReminders>>

\* app.on("before-quit"): shutdownNotificationsAndReminders
BeforeQuit ==
    /\ ~checker.quit
    /\ LoopFree
    /\ checker' = [stopReminderChecker(checker) EXCEPT !.quit = TRUE]
    /\ UNCHANGED <<remVars, now, calls, faults, exceptReminders>>

\* reminder:remove arrives while the checker is alive: an IPC handler runs
\* when the event loop is free
RemoveBetweenTicks ==
    /\ LoopFree
    /\ ReminderRemove

NextChecker ==
    \/ InitNotifications
    \/ IntervalFires
    \/ TickEnds
    \/ BeforeQuit
    \/ RemoveBetweenTicks
    \/ ClockAdvances

SpecChecker == InitReminders /\ [][NextChecker]_vars

\* C26: at most one interval timer is live and at most one tick is running;
\* after before-quit no timer is live, the handle is released and no tick
\* has started
C26_SingleCheckerStopsOnQuit ==
    /\ Cardinality(checker.timers) <= 1
    /\ Len(checker.running) <= 1
    /\ checker.quit => (checker.timers = {} /\ checker.handle = 0 /\ ~checker.late)

\* the checker was started twice, its timer ticked and showed a reminder,
\* and the application was then asked to quit
C26_Witness ==
    /\ checker.quit
    /\ checker.starts = MaxStarts
    /\ checker.made = 1
    /\ checker.ticked
    /\ remLast.op = "check"
    /\ remLast.fired # <<>>

(***************************************************************************)
(* scheduleWithClampedTimeout: a call, the timeouts of its chain, cancel.  *)
(***************************************************************************)
\* the delays asked for: negative, zero, fractional, below, at and beyond
\* 2^31-1
DelayInputs ==
    {[neg |-> TRUE, hi |-> 0, lo |-> 1, half |-> FALSE],
     [neg |-> FALSE, hi |-> 0, lo |-> 0, half |-> FALSE],
     [neg |-> FALSE, hi |-> 0, lo |-> 0, half |-> TRUE],
     [neg |-> FALSE, hi |-> 0, lo |-> 5, half |-> TRUE],
     [neg |-> FALSE, hi |-> 0, lo |-> 1, half |-> FALSE],
     [neg |-> TRUE, hi |-> 1, lo |-> 0, half |-> TRUE],
     [neg |-> FALSE, hi |-> 0, lo |-> MAX_SAFE_TIMEOUT - 1, half |-> FALSE],
     [neg |-> FALSE, hi |-> 1, lo |-> 0, half |-> FALSE],
     [neg |-> FALSE, hi |-> 1, lo |-> 1, half |-> TRUE],
     [neg |-> FALSE, hi |-> MaxChain - 1, lo |-> 0, half |-> FALSE],
     [neg |-> FALSE, hi |-> MaxChain - 1, lo |-> 7, half |-> FALSE]}

\* scheduleWithClampedTimeout(fn, delayMs): the closure and its first step()
ScheduleWithClampedTimeout ==
    /\ sched.calls < MaxSchedules
    /\ sched.pending = 0
    /\ \E delayMs \in DelayInputs :
           sched' = scheduleStep(Scheduled(delayMs, sched.calls + 1))
    /\ UNCHANGED exceptSched

\* the pending timeout elapses and its callback runs
TimeoutElapses ==
    /\ sched.pending # 0
    /\ LET after == timeoutCallback(sched)
       IN  sched' = [after EXCEPT
                        !.lateInvoke = @ \/ (sched.cancelled /\ after.invoked # sched.invoked),
                        !.lateWait = @ \/ (sched.cancelled /\ after.waits # sched.waits)]
    /\ UNCHANGED exceptSched

\* the caller uses the handle: cancel()
Cancel ==
    /\ sched.live
    /\ sched.cancels < MaxCancels
    /\ sched' = cancel(sched)
    /\ UNCHANGED exceptSched

NextSched ==
    \/ ScheduleWithClampedTimeout
    \/ TimeoutElapses
    \/ Cancel

SpecSched == InitTimer /\ [][NextSched]_vars

RECURSIVE MsSum(_)
MsSum(seq) == IF seq = <<>> THEN Ms(0, 0) ELSE MsPlus(Head(seq), MsSum(Tail(seq)))

\* C27: every wait of the chain is at most 2^31-1 ms and the waits never
\* exceed max(0, floor(delayMs)); fn runs at most once, and when it has run
\* the waits sum to that delay and none is pending; a chain that was not
\* cancelled is waiting or has run fn; after cancel() nothing is pending and
\* neither fn nor a further wait followed
C27_ClampedChain ==
    sched.live =>
        /\ \A i \in 1..Len(sched.waits) : MsLeq(sched.waits[i], MaxSafe)
        /\ MsPlus(MsSum(sched.waits), sched.remaining) = sched.target
        /\ sched.invoked <= 1
        /\ sched.invoked = 1 => (MsSum(sched.waits) = sched.target /\ sched.pending = 0)
        /\ ~sched.cancelled => (sched.pending # 0 \/ sched.invoked = 1)
        /\ sched.cancelled => (sched.pending = 0 /\ ~sched.lateInvoke /\ ~sched.lateWait)

\* a delay beyond 2^31-1 was waited out in more than one wait, fn ran, and
\* cancel() was called afterwards
C27_Witness ==
    /\ sched.live
    /\ Len(sched.waits) >= 2
    /\ sched.invoked = 1
    /\ sched.cancelled

(***************************************************************************)
(* Hidden subjects and deletion (SpecTimer).                               *)
(***************************************************************************)
\* the rows of hidden_subjects.csv as loaded
HiddenRows == timerReadCSV(timerDisk.hidden_subjects)

SubjectsOf(rows) == {Get(rows[i], "subject") : i \in 1..Len(rows)}

\* getAllSubjects() holds each subject of an entry that has no hidden row,
\* once, and nothing else; hiding and unhiding leave the entries as they were
VisibleAreEntriesNotHidden ==
    LET visible == getAllSubjects(timerDisk)
    IN  /\ Range(visible) = SubjectsOf(TimerEntries) \ SubjectsOf(HiddenRows)
        /\ \A i, j \in 1..Len(visible) : visible[i] = visible[j] => i = j
        /\ timerLast.op \in {"hide", "unhide"} => TimerEntries = timerLast.before

\* C28 as stated: getAllSubjects() is the distinct subjects of the entries
\* without the hidden ones, and a subject hidden with success stays out of it
\* until unhideSubject is called for it
C28_HiddenUntilUnhide ==
    /\ VisibleAreEntriesNotHidden
    /\ \A k \in timerHid.kept : Str(k) \notin Range(getAllSubjects(timerDisk))

\* C28 amended: a subject hidden with success stays out of getAllSubjects()
\* until unhideSubject or deleteSubjectCompletely is called for it
C28_HiddenUntilUnhideOrDelete ==
    /\ VisibleAreEntriesNotHidden
    /\ \A k \in timerHid.live : Str(k) \notin Range(getAllSubjects(timerDisk))

\* getAllSubjects answered while a subject that has entries is hidden
C28_Witness ==
    /\ timerLast.op = "getAllSubjects"
    /\ timerLast.value = getAllSubjects(timerDisk)
    /\ \E k \in timerHid.live : Str(k) \in SubjectsOf(TimerEntries)

\* the subject the last hide, unhide or delete call stands for
LastSubject == Str(timerLast.key[1])

\* C29: hideSubject returns true and appends one row for the subject when
\* it has none, and returns false and leaves the table when it has one;
\* unhideSubject returns true and removes the subject's row when it has
\* one, and returns false and leaves the table when it has none; no two
\* rows of the table carry the same subject
C29_HideUnhideToggle ==
    /\ \A i, j \in 1..Len(HiddenRows) :
           Get(HiddenRows[i], "subject") = Get(HiddenRows[j], "subject") => i = j
    /\ timerLast.op = "hide" =>
           IF LastSubject \in SubjectsOf(timerLast.hiddenBefore)
           THEN timerLast.value = Bool(FALSE) /\ HiddenRows = timerLast.hiddenBefore
           ELSE /\ timerLast.value = Bool(TRUE)
                /\ Len(HiddenRows) = Len(timerLast.hiddenBefore) + 1
                /\ SubSeq(HiddenRows, 1, Len(timerLast.hiddenBefore)) = timerLast.hiddenBefore
                /\ Get(HiddenRows[Len(HiddenRows)], "subject") = LastSubject
    /\ timerLast.op = "unhide" =>
           IF LastSubject \in SubjectsOf(timerLast.hiddenBefore)
           THEN /\ timerLast.value = Bool(TRUE)
                /\ Len(HiddenRows) = Len(timerLast.hiddenBefore) - 1
                /\ LastSubject \notin SubjectsOf(HiddenRows)
                /\ \A i \in 1..Len(timerLast.hiddenBefore) :
                       Get(timerLast.hiddenBefore[i], "subject") # LastSubject
                           => timerLast.hiddenBefore[i] \in Range(HiddenRows)
           ELSE timerLast.value = Bool(FALSE) /\ HiddenRows = timerLast.hiddenBefore

\* a hidden subject was hidden again, or a hidden subject was unhidden
\* while another stayed hidden
C29_Witness ==
    \/ /\ timerLast.op = "hide"
       /\ timerLast.value = Bool(FALSE)
       /\ timerLast.hiddenBefore # <<>>
    \/ /\ timerLast.op = "unhide"
       /\ timerLast.value = Bool(TRUE)
       /\ HiddenRows # <<>>

\* the rows of a table that stand for other subjects than the last call's
RowsOfOthers(rows) ==
    SelectSeq(rows, LAMBDA r : Get(r, "subject") # LastSubject)

\* C30: after deleteSubjectCompletely returned, no entry and no hidden row
\* carries the subject, and the rows of other subjects are those there were
C30_DeleteRemovesSubjectOnly ==
    (timerLast.op = "delete" /\ ~timerLast.threw) =>
        /\ LastSubject \notin SubjectsOf(TimerEntries)
        /\ LastSubject \notin SubjectsOf(HiddenRows)
        /\ TimerEntries = RowsOfOthers(timerLast.before)
        /\ HiddenRows = RowsOfOthers(timerLast.hiddenBefore)

\* a subject that had an entry and a hidden row was deleted
C30_Witness ==
    /\ timerLast.op = "delete"
    /\ ~timerLast.threw
    /\ timerLast.value = Bool(TRUE)
    /\ LastSubject \in SubjectsOf(timerLast.before)
    /\ LastSubject \in SubjectsOf(timerLast.hiddenBefore)

\* C31: deleteSubjectCompletely returns true exactly when an entry or a
\* hidden row of the subject was there to delete
C31_DeleteReturnsWhetherDeleted ==
    (timerLast.op = "delete" /\ ~timerLast.threw) =>
        (timerLast.value = Bool(TRUE)
            <=> LastSubject \in SubjectsOf(timerLast.before)
                                    \cup SubjectsOf(timerLast.hiddenBefore))

(***************************************************************************)
(* Aggregation over date ranges (SpecTimer).                               *)
(***************************************************************************)
\* the entries dated inside the range of the last call, an absent bound
\* leaving its side open
EntriesInRange ==
    LET startDate == timerLast.key[1]
        endDate == timerLast.key[2]
    IN  SelectSeq(TimerEntries,
                  LAMBDA e : /\ (startDate = Undefined \/ DateLeq(startDate, Get(e, "date")))
                             /\ (endDate = Undefined \/ DateLeq(Get(e, "date"), endDate)))

\* the sum of total_minutes over a set or sequence of rows, as an integer
RECURSIVE MinutesOf(_)
MinutesOf(rows) ==
    IF rows = <<>> THEN 0 ELSE Get(Head(rows), "total_minutes").v + MinutesOf(Tail(rows))

\* C32: each of the three aggregations works on exactly the entries dated
\* from startDate to endDate, an absent bound leaving its side open
C32_AggregatesEntriesInRange ==
    /\ timerLast.op = "getSubjectDateAggregatedData" =>
           /\ Len(timerLast.value) = Len(EntriesInRange)
           /\ \A e \in Range(EntriesInRange) :
                  [subject |-> Get(e, "subject"), date |-> Get(e, "date"),
                   total_minutes |-> Get(e, "total_minutes")] \in Range(timerLast.value)
    /\ timerLast.op = "getSubjectTotalsByDateRange" =>
           /\ {r.subject : r \in Range(timerLast.value)} = SubjectsOf(EntriesInRange)
           /\ \A r \in Range(timerLast.value) :
                  r.total_minutes.v =
                      MinutesOf(SelectSeq(EntriesInRange,
                                          LAMBDA e : Get(e, "subject") = r.subject))
    /\ timerLast.op = "getDailyAggregatedData" =>
           /\ {r.date : r \in Range(timerLast.value)}
                  = {Get(e, "date") : e \in Range(EntriesInRange)}
           /\ \A r \in Range(timerLast.value) :
                  r.total_minutes.v =
                      MinutesOf(SelectSeq(EntriesInRange, LAMBDA e : Get(e, "date") = r.date))

\* the rows of a result that carry a subject, and all of them
RowsOfSubject(rows, subject) == SelectSeq(rows, LAMBDA r : r.subject = subject)

\* the calls that aggregate over a date range
RangeQueries ==
    {"getSubjectTotalsByDateRange", "getDailyAggregatedData", "getSubjectDateAggregatedData"}

\* C33: for the table and the range of every aggregation call, the rows of
\* getSubjectDateAggregatedData of a subject sum to the total
\* getSubjectTotalsByDateRange reports for it, a subject is in the totals
\* exactly when it has such a row, and the totals of getDailyAggregatedData
\* sum to the sum of all those rows
C33_AggregationsAgree ==
    timerLast.op \in RangeQueries =>
        LET range == timerLast.key
            detail == getSubjectDateAggregatedData(timerDisk, range[1], range[2])
            totals == getSubjectTotalsByDateRange(timerDisk, range[1], range[2])
            daily == getDailyAggregatedData(timerDisk, range[1], range[2])
        IN  /\ {r.subject : r \in Range(totals)} = {r.subject : r \in Range(detail)}
            /\ \A i, j \in 1..Len(totals) : totals[i].subject = totals[j].subject => i = j
            /\ \A r \in Range(totals) :
                   r.total_minutes = Num(MinutesOf(RowsOfSubject(detail, r.subject)))
            /\ MinutesOf(daily) = MinutesOf(detail)

\* an aggregation was asked for a range that leaves out one of two entries
\* of a subject
C33_Witness ==
    /\ timerLast.op \in RangeQueries
    /\ timerLast.key = <<Str("d2"), Str("d2")>>
    /\ Len(TimerEntries) >= 2
    /\ Len(getSubjectDateAggregatedData(timerDisk, Str("d2"), Str("d2"))) = 1
    /\ Len(timerLast.value) = 1

(***************************************************************************)
(* Calendar days: sessions started at instants of UTC on a machine at a    *)
(* UTC offset, localDateString and getSessionsForMonth.                    *)
(***************************************************************************)
\* the running application with an empty store, on a machine at any offset
InitCalendar ==
    /\ InstalledOn(Started(InstallWith(Absent, 0)))
    /\ proc = "up"
    /\ step = Len(ReadySteps)
    /\ boots = 1
    /\ migRuns = 1
    /\ \E offset \in Offsets : cal = CalendarAt(offset)

\* time passes
InstantPasses ==
    /\ now < MaxInstant
    /\ now' = now + 1
    /\ UNCHANGED <<store, cal, calls, exceptCalendar>>

\* store:startSession at the instant `now`
CalendarStartSession ==
    /\ calls < MaxCalendarCalls
    /\ store' = startSessionInStore(store, Str(<<"M">>), now).st
    /\ calls' = calls + 1
    /\ UNCHANGED <<now, cal, exceptCalendar>>

\* localDateString(new Date(t)) for an instant up to now
LocalDateOf ==
    \E t \in 1..now :
        /\ cal' = [cal EXCEPT !.op = "localDateString", !.arg = t,
                              !.value = localDateStringAt(cal.tz, t),
                              !.sessions = store.sessions]
        /\ UNCHANGED <<now, store, calls, exceptCalendar>>

\* the months of the model calendar that have begun
Months == 1..((now + cal.tz) \div (TicksPerDay * DaysPerMonth)) + 1

\* getSessionsForMonth(year, month)
SessionsForMonth ==
    \E month \in Months :
        /\ cal' = [cal EXCEPT !.op = "getSessionsForMonth", !.arg = month,
                              !.value = getSessionsForMonth(store, cal.tz, month),
                              !.sessions = store.sessions]
        /\ UNCHANGED <<now, store, calls, exceptCalendar>>

NextCalendar ==
    \/ InstantPasses
    \/ CalendarStartSession
    \/ LocalDateOf
    \/ SessionsForMonth

SpecCalendar == InitCalendar /\ [][NextCalendar]_vars

\* the half of its local day an instant falls in: 0 before noon, 1 after
LocalHalf(t) == (t + cal.tz) % TicksPerDay

\* C34: the string of an instant in the second half of its local day differs
\* from that of the next instant, which is the next day's; the string of an
\* instant in the first half is that of the next instant; whatever the UTC
\* day of the two instants
C34_LocalDayBoundary ==
    cal.op = "localDateString" =>
        LET next == localDateStringAt(cal.tz, cal.arg + 1)
        IN  IF LocalHalf(cal.arg) = TicksPerDay - 1
            THEN DayIndex(next) = DayIndex(cal.value) + 1
            ELSE next = cal.value

\* on a machine ahead of UTC, the last instant of a local day whose next
\* instant has the same UTC day was asked for
C34_Witness ==
    /\ cal.op = "localDateString"
    /\ cal.tz = 1
    /\ LocalHalf(cal.arg) = TicksPerDay - 1
    /\ toISODate(cal.arg) = toISODate(cal.arg + 1)
    /\ localDateStringAt(cal.tz, cal.arg + 1) # toISODate(cal.arg + 1)

\* the local day of the year an instant falls on, from 0
LocalDay(t) == (t + cal.tz - LocalHalf(t)) \div TicksPerDay

\* C35: getSessionsForMonth returns the sessions started on a local day of
\* the month, each once, the later start first
C35_MonthByLocalDay ==
    cal.op = "getSessionsForMonth" =>
        /\ Range(cal.value) =
               {r \in Range(cal.sessions) :
                   LocalDay(r.startTime) \div DaysPerMonth = cal.arg - 1}
        /\ \A i, j \in 1..Len(cal.value) :
               /\ i < j => cal.value[i].startTime >= cal.value[j].startTime
               /\ cal.value[i] = cal.value[j] => i = j

\* C36: after a write that fails at its first step, the temporary file, the
\* primary file holds what it held immediately before the write began,
\* whether or not a backup of an earlier write is there
C36_PrimaryKeptOnEarlyFailure ==
    (last.op \in {"insert", "update", "remove"} /\ last.fault.at = "temp") =>
        FilesOf(last.table).file = last.before.file

(***************************************************************************)
(* Reads that fail: CsvDatabase.readCSV catches whatever readFileSync or   *)
(* the parse raises and answers [].                                        *)
(***************************************************************************)
\* CsvDatabase.readCSV with its catch block: a read that raises yields []
readCSVCaught(f, raises) == IF raises THEN <<>> ELSE readCSV(f)

\* a read can raise only once existsSync has answered true
ReadChoices(f) ==
    {FALSE} \cup IF faults < MaxFaults /\ f.file.exists THEN {TRUE} ELSE {}

\* the failure a handler's read met, as `last` records it
ReadFault(raises) == [at |-> IF raises THEN "read" ELSE "none", restore |-> FALSE]

\* db:insert whose read of the table may raise
InsertOnRead ==
    /\ WindowOpen
    /\ calls < MaxCalls
    /\ \E table \in TableInputs : \E data \in InsertInputs :
       \E raises \in ReadChoices(FilesOf(table)) :
         LET rows == readCSVCaught(FilesOf(table), raises)
             out == insert(table, rows, FilesOf(table), data, NoFault)
         IN  /\ InsertAllowed(rows)
             /\ Handled("insert", table, Undefined, ReadFault(raises), rows, out,
                        dbInsertReply(out))
             /\ expected' = Implied("insert", table, Undefined, data, out)
    /\ calls' = calls + 1
    /\ UNCHANGED <<queue, inflight>>

\* db:update whose read of the table may raise
UpdateOnRead ==
    /\ WindowOpen
    /\ calls < MaxCalls
    /\ \E table \in TableInputs : \E id \in IdInputs : \E data \in UpdateInputs :
       \E raises \in ReadChoices(FilesOf(table)) :
         LET rows == readCSVCaught(FilesOf(table), raises)
             out == update(table, rows, FilesOf(table), id, data, NoFault)
         IN  /\ Handled("update", table, id, ReadFault(raises), rows, out,
                        dbUpdateReply(out))
             /\ expected' = Implied("update", table, id, data, out)
    /\ calls' = calls + 1
    /\ UNCHANGED <<queue, inflight>>

\* db:remove whose read of the table may raise
RemoveOnRead ==
    /\ WindowOpen
    /\ calls < MaxCalls
    /\ \E table \in TableInputs : \E id \in IdInputs :
       \E raises \in ReadChoices(FilesOf(table)) :
         LET rows == readCSVCaught(FilesOf(table), raises)
             out == remove(table, rows, FilesOf(table), id, NoFault)
         IN  /\ Handled("remove", table, id, ReadFault(raises), rows, out,
                        dbRemoveReply(out))
             /\ expected' = Implied("remove", table, id, <<>>, out)
    /\ calls' = calls + 1
    /\ UNCHANGED <<queue, inflight>>

\* the running application when reads may fail and writes do not
NextRead ==
    \/ InsertOnRead
    \/ UpdateOnRead
    \/ RemoveOnRead

SpecRead == Init /\ [][NextRead]_vars

\* C37: a handler whose read of the table raised leaves every row the primary
\* file held before it in the primary file
C37_FailedReadKeepsRows ==
    (last.op \in {"insert", "update", "remove"} /\ last.fault.at = "read") =>
        Range(readCSV(last.before)) \subseteq Range(readCSV(FilesOf(last.table)))

\* C38: completion is all or nothing: when completeSessionInStore throws, the
\* sessions, the daily stats and the subject totals are what they were; when
\* it returns, the session has an endTime and its recorded duration has been
\* added to the bucket of its start day and subject and to the subject's total
C38_CompletionAllOrNothing ==
    storeLast.op = "complete" =>
        IF storeLast.threw THEN store = storeLast.before
        ELSE LET day == localDateString(RecordBefore.startTime)
                 subject == toLowerCase(trim(RecordBefore.subjectName))
             IN  /\ Completed(RecordAfter)
                 /\ StatTime(store, day, subject) =
                        StatTime(storeLast.before, day, subject)
                        + RecordAfter.durationMinutes.v
                 /\ TotalOf(store, subject) =
                        TotalOf(storeLast.before, subject)
                        + RecordAfter.durationMinutes.v

\* C39: once the stored reminders have pairwise distinct ids, they keep them
\* through every reminder:add, reminder:remove and checker tick: at most one
\* reminder per id is stored
C39_OneReminderPerId ==
    (remLast.op # "none"
     /\ \A i, j \in 1..Len(LoadedBefore) : LoadedBefore[i].id = LoadedBefore[j].id => i = j) =>
        LET stored == loadReminders(remFile)
        IN  \A i, j \in 1..Len(stored) : stored[i].id = stored[j].id => i = j

(***************************************************************************)
(* Queries: to-dos and notes are added and starred, and db:query reads     *)
(* them.                                                                   *)
(***************************************************************************)
\* "starred DESC, id", the order getTodosByDate and getAllTodos ask for
StarredDescId ==
    <<"s", "t", "a", "r", "r", "e", "d", " ", "D", "E", "S", "C", ",", " ", "i", "d">>

\* "created_at DESC", the order getNotes asks for
CreatedAtDesc ==
    <<"c", "r", "e", "a", "t", "e", "d", "_", "a", "t", " ", "D", "E", "S", "C">>

\* "id", the order getStarredTodos asks for
OrderById == <<"i", "d">>

\* the queries the model makes
QueryInputs ==
    <<[table |-> "todos", where |-> [date |-> Str("d1")], options |-> [orderBy |-> StarredDescId]],
      [table |-> "todos", where |-> [date |-> Str("d2")], options |-> [orderBy |-> StarredDescId]],
      [table |-> "todos", where |-> <<>>, options |-> [orderBy |-> StarredDescId]],
      [table |-> "todos", where |-> [starred |-> Num(1)], options |-> [orderBy |-> OrderById]],
      [table |-> "todos", where |-> <<>>, options |-> [orderBy |-> StarredDescId, limit |-> 1]],
      [table |-> "todos", where |-> <<>>, options |-> [limit |-> 1]],
      [table |-> "notes", where |-> <<>>, options |-> [orderBy |-> CreatedAtDesc]],
      [table |-> "notes", where |-> <<>>, options |-> [orderBy |-> CreatedAtDesc, limit |-> 1]],
      [table |-> "sessions", where |-> <<>>, options |-> <<>>]>>

\* a handler changed the tables
QueryStored(op, table, rows) ==
    /\ calls < MaxQueryCalls
    /\ qry' = [QueryIdle EXCEPT !.tables = [qry.tables EXCEPT ![table] = rows],
                                !.op = op, !.table = table]
    /\ calls' = calls + 1
    /\ UNCHANGED exceptQuery

\* todos.ts addTodo: insert("todos", ...) appends the row under the next id
QueryAddTodo ==
    /\ Len(qry.tables.todos) < MaxRows
    /\ \E date \in {"d1", "d2"}, starred \in BOOLEAN :
         QueryStored("addTodo", "todos",
                     Append(qry.tables.todos,
                            [id |-> getNextId(qry.tables.todos), date |-> Str(date),
                             starred |-> Num(IF starred THEN 1 ELSE 0)]))

\* todos.ts updateTodo(id, {starred}): update("todos", id, {starred: 1 or 0})
QueryStarTodo ==
    \E id \in 1..MaxRows, starred \in BOOLEAN :
        LET index == FindIndex(qry.tables.todos, Num(id))
        IN  /\ index # 0
            /\ QueryStored("updateTodo", "todos",
                           [qry.tables.todos EXCEPT
                               ![index] = Spread(@, [starred |-> Num(IF starred THEN 1 ELSE 0)])])

\* todos.ts addNote: insert("notes", ...) appends the row under the next id
QueryAddNote ==
    /\ Len(qry.tables.notes) < MaxRows
    /\ \E created \in {"d1", "d2", "d3"} :
         QueryStored("addNote", "notes",
                     Append(qry.tables.notes,
                            [id |-> getNextId(qry.tables.notes), created_at |-> Str(created)]))

\* ipcMain.handle("db:query")
DbQuery ==
    /\ calls < MaxQueryCalls
    /\ \E n \in 1..Len(QueryInputs) :
         LET q == QueryInputs[n]
         IN  qry' = [qry EXCEPT !.op = "query", !.table = q.table, !.where = q.where,
                                !.options = q.options,
                                !.value = query(qry.tables, q.table, q.where, q.options)]
    /\ calls' = calls + 1
    /\ UNCHANGED exceptQuery

NextQuery ==
    \/ QueryAddTodo
    \/ QueryStarTodo
    \/ QueryAddNote
    \/ DbQuery

SpecQuery == InitTimer /\ [][NextQuery]_vars

\* the rows of the queried table that match every where field
Matching ==
    SelectSeq(qry.tables[qry.table],
              LAMBDA r : \A key \in DOMAIN qry.where : Get(r, key) = qry.where[key])

\* the orderBy string of the last query, "" when it gave none
AskedOrder == IF "orderBy" \in DOMAIN qry.options THEN qry.options.orderBy ELSE <<>>

\* whether row a may stand before row b in the order the last query asked for
MayPrecede(a, b) ==
    CASE AskedOrder = StarredDescId ->
             \/ a.starred.v > b.starred.v
             \/ a.starred.v = b.starred.v /\ a.id.v <= b.id.v
      [] AskedOrder = CreatedAtDesc -> DayIndex(a.created_at.v) >= DayIndex(b.created_at.v)
      [] AskedOrder = OrderById -> a.id.v <= b.id.v
      [] OTHER -> TRUE

\* C40: a query answers matching rows only, in the order its orderBy asks for
\* (starred first and ascending id among equals for "starred DESC, id",
\* descending created_at for "created_at DESC"), and all of them or, under a
\* limit, the first `limit` of that order
C40_QueryFiltersOrdersLimits ==
    (qry.op = "query" /\ qry.table \in DOMAIN qry.tables) =>
        LET value == qry.value
            limited == "limit" \in DOMAIN qry.options
        IN  /\ Range(value) \subseteq Range(Matching)
            /\ Len(value) = IF limited /\ qry.options.limit < Len(Matching)
                            THEN qry.options.limit ELSE Len(Matching)
            /\ \A i, j \in 1..Len(value) : i < j => MayPrecede(value[i], value[j])
            /\ \A i \in 1..Len(value) : \A r \in Range(Matching) \ Range(value) :
                   MayPrecede(value[i], r)

====
